---- MODULE Spec2Model ----
(***************************************************************************)
(* A model of the EDINET XBRL analyzer (main.go): the tag pattern table,   *)
(* the archive extractor parseXBRLFromZip, the collector pass runCollector *)
(* and the two upserting writers saveStock and savePricesToDB.             *)
(***************************************************************************)
EXTENDS Integers, Sequences, FiniteSets, TLC

\* ------------------------------------------------------------------------
\* Bounds of the model
\* ------------------------------------------------------------------------
\* elements (tagged values) in one archive, over all of its files
MaxElems == 2
\* files in one archive
MaxFiles == 2
\* documents in the list of one collector pass
MaxDocs == 2
\* rows in one call of savePricesToDB
MaxPrices == 2
\* rows of the stocks table a handler of the server reads
MaxStocks == 3
\* elements in one archive with an audit report, over all of its files
MaxArchiveElems == 3
\* the last day, counted from 1970-01-01, a batch range may name
MaxDay == 6

\* ------------------------------------------------------------------------
\* Documents: an XBRL text is a sequence of elements
\*   <name contextRef="ctx">text</name>
\* in document order.  `text` is the numeral between the tags (a digit
\* string, held as the number it denotes).
\* ------------------------------------------------------------------------
Numerals == {0, 1, 2}

Dur     == "CurrentYearDuration"
DurNC   == "CurrentYearDuration_NonConsolidatedMember"
Inst    == "CurrentYearInstant"
InstNC  == "CurrentYearInstant_NonConsolidatedMember"
Filing  == "FilingDateInstant"
Prior   == "Prior1YearDuration"

ContextRefs == {Dur, DurNC, Inst, InstNC, Filing, Prior}

\* contextRef="CurrentYearDuration[^"]*"  and  contextRef="CurrentYearInstant[^"]*"
DurAny  == {Dur, DurNC}
InstAny == {Inst, InstNC}

\* ------------------------------------------------------------------------
\* strings.TrimSuffix / strings.HasSuffix on the strings
\* the program applies them to.  A string is held as the sequence of its
\* parts, e.g. "NetSalesFallback2" is <<"NetSales", "Fallback", "2">>.
\* ------------------------------------------------------------------------
HasSuffix(s, suffix) ==
    /\ Len(s) >= Len(suffix)
    /\ SubSeq(s, Len(s) - Len(suffix) + 1, Len(s)) = suffix

TrimSuffix(s, suffix) ==
    IF HasSuffix(s, suffix) THEN SubSeq(s, 1, Len(s) - Len(suffix)) ELSE s

Fallback  == <<"Fallback">>
Fallback2 == <<"Fallback", "2">>
Fallback3 == <<"Fallback", "3">>

\* ------------------------------------------------------------------------
\* The tag pattern table.  Each regular expression
\*   <NAME[^>]*contextRef="CTX"[^>]*>(\d+)</
\* is held as the element names its NAME part matches and the contextRef
\* values its CTX part matches.
\* ------------------------------------------------------------------------
P(tagName, names, ctx) == [tagName |-> tagName, names |-> names, ctx |-> ctx]

xbrlTagPatterns ==
    { P(<<"NetSales">>, {"jpcrp_cor:NetSalesSummaryOfBusinessResults"}, {Dur}),
      P(<<"NetSales">> \o Fallback, {"jpcrp_cor:NetSalesSummaryOfBusinessResults"}, DurAny),
      P(<<"NetSales">> \o Fallback2, {"jppfs_cor:NetSales"}, {Dur}),
      P(<<"OperatingRevenues">>,
        {"jpcrp_cor:OperatingRevenue1SummaryOfBusinessResults",
         "jpcrp_cor:OperatingRevenue2SummaryOfBusinessResults"}, DurAny),
      P(<<"OperatingIncome">>, {"jpcrp_cor:OperatingIncomeLossSummaryOfBusinessResults"}, {Dur}),
      P(<<"OperatingIncome">> \o Fallback,
        {"jpcrp_cor:OperatingIncomeLossSummaryOfBusinessResults"}, DurAny),
      P(<<"OperatingIncome">> \o Fallback2, {"jppfs_cor:OperatingIncome"}, {Dur}),
      P(<<"OrdinaryIncome">>, {"jpcrp_cor:OrdinaryIncomeLossSummaryOfBusinessResults"}, DurAny),
      P(<<"NetIncome">>,
        {"jpcrp_cor:ProfitLossAttributableToOwnersOfParentSummaryOfBusinessResults"}, {Dur}),
      P(<<"NetIncome">> \o Fallback,
        {"jpcrp_cor:ProfitLossAttributableToOwnersOfParentSummaryOfBusinessResults"}, DurAny),
      P(<<"NetIncome">> \o Fallback2,
        {"jppfs_cor:ProfitLoss", "jppfs_cor:ProfitLossAttributableToOwnersOfParent"}, {Dur}),
      P(<<"NetIncome">> \o Fallback3, {"jpcrp_cor:NetIncomeLossSummaryOfBusinessResults"}, DurAny),
      P(<<"TotalAssets">>, {"jpcrp_cor:TotalAssetsSummaryOfBusinessResults"}, {Inst}),
      P(<<"TotalAssets">> \o Fallback, {"jpcrp_cor:TotalAssetsSummaryOfBusinessResults"}, InstAny),
      P(<<"TotalAssets">> \o Fallback2, {"jppfs_cor:Assets"}, {Inst}),
      P(<<"NetAssets">>, {"jpcrp_cor:NetAssetsSummaryOfBusinessResults"}, {Inst}),
      P(<<"NetAssets">> \o Fallback, {"jpcrp_cor:NetAssetsSummaryOfBusinessResults"}, InstAny),
      P(<<"NetAssets">> \o Fallback2, {"jppfs_cor:NetAssets"}, {Inst}),
      P(<<"CurrentAssets">>, {"jppfs_cor:CurrentAssets"}, {Inst}),
      P(<<"Liabilities">>, {"jppfs_cor:Liabilities", "jppfs_cor:LiabilitiesAndNetAssets"}, {Inst}),
      P(<<"CurrentLiabilities">>, {"jppfs_cor:CurrentLiabilities"}, {Inst}),
      P(<<"CashAndDeposits">>, {"jppfs_cor:CashAndDeposits"}, {Inst}),
      P(<<"SharesIssued">>,
        {"jpcrp_cor:TotalNumberOfIssuedSharesSummaryOfBusinessResults"}, InstAny),
      P(<<"SharesIssued">> \o Fallback,
        {"jpcrp_cor:NumberOfIssuedSharesAsOfFilingDateEtcTotalNumberOfSharesEtc"}, ContextRefs) }

TagNames == { p.tagName : p \in xbrlTagPatterns }

\* xbrlTagPatterns[tagName]
PatternTable == [t \in TagNames |-> CHOOSE p \in xbrlTagPatterns : p.tagName = t]
Pattern(tagName) == PatternTable[tagName]

\* pattern.FindStringSubmatch(contentStr): the leftmost match, as
\* <<whole match, captured numeral>>, or the empty sequence when no element
\* of the text matches.
Matches(pattern, e) == e.name \in pattern.names /\ e.contextRef \in pattern.ctx

FindStringSubmatch(pattern, contentStr) ==
    LET hits == { i \in 1..Len(contentStr) : Matches(pattern, contentStr[i]) }
    IN  IF hits = {} THEN << >>
        ELSE LET i == CHOOSE j \in hits : \A k \in hits : j <= k
             IN  <<contentStr[i], contentStr[i].text>>

\* strconv.ParseInt(s, 10, 64) with the error dropped: the number the digits
\* denote, or the largest int64 when they denote more (the value ParseInt
\* returns beside its range error).
\* The int64 range is scaled down to eight bits: every amount of the model is
\* below MaxInt64, as every amount of a real filing is below 2^63.
MaxInt64 == 127
ParseInt(s) == IF s > MaxInt64 THEN MaxInt64 ELSE s

\* ------------------------------------------------------------------------
\* FinancialData and the body of the pattern loop of parseXBRLFromZip
\* ------------------------------------------------------------------------
Fields == {"NetSales", "OperatingIncome", "NetIncome", "TotalAssets", "NetAssets",
           "CurrentAssets", "Liabilities", "CurrentLiabilities", "CashAndDeposits",
           "SharesIssued"}

\* var data FinancialData
FinancialData == [f \in Fields |-> 0]

\* mutant: the field is assigned whatever it holds
AssignIfZero_Always(st, field, value, mark) ==
    [data  |-> [st.data EXCEPT ![field] = value],
     found |-> IF mark THEN st.found \cup {<<field>>} ELSE st.found]

\* if data.F == 0 { data.F = value; found["F"] = true }
\* (for OrdinaryIncome: without the found mark)
AssignIfZero(st, field, value, mark) ==
    IF st.data[field] = 0
    THEN [data  |-> [st.data EXCEPT ![field] = value],
          found |-> IF mark THEN st.found \cup {<<field>>} ELSE st.found]
    ELSE st

\* mutant: the ordinary-income case left out of the switch
OrdinaryIncomeCase_Dropped(st, value) == st

\* case "OrdinaryIncome": if data.OperatingIncome == 0 { data.OperatingIncome = value }
OrdinaryIncomeCase(st, value) == AssignIfZero(st, "OperatingIncome", value, FALSE)

\* mutant: "OperatingRevenues" is no case of the switch
SwitchBaseName_WithoutOperatingRevenues(st, baseName, value) ==
    CASE baseName = <<"NetSales">> -> AssignIfZero(st, "NetSales", value, TRUE)
      [] baseName = <<"OperatingIncome">> -> AssignIfZero(st, "OperatingIncome", value, TRUE)
      [] baseName = <<"OrdinaryIncome">>  -> OrdinaryIncomeCase(st, value)
      [] baseName = <<"NetIncome">>       -> AssignIfZero(st, "NetIncome", value, TRUE)
      [] baseName = <<"TotalAssets">>     -> AssignIfZero(st, "TotalAssets", value, TRUE)
      [] baseName = <<"NetAssets">>       -> AssignIfZero(st, "NetAssets", value, TRUE)
      [] baseName = <<"CurrentAssets">>   -> AssignIfZero(st, "CurrentAssets", value, TRUE)
      [] baseName = <<"Liabilities">>     -> AssignIfZero(st, "Liabilities", value, TRUE)
      [] baseName = <<"CurrentLiabilities">> ->
             AssignIfZero(st, "CurrentLiabilities", value, TRUE)
      [] baseName = <<"CashAndDeposits">> -> AssignIfZero(st, "CashAndDeposits", value, TRUE)
      [] baseName = <<"SharesIssued">>    -> AssignIfZero(st, "SharesIssued", value, TRUE)
      [] OTHER -> st

\* switch baseName { ... }
SwitchBaseName(st, baseName, value) ==
    CASE baseName \in {<<"NetSales">>, <<"OperatingRevenues">>} ->
             AssignIfZero(st, "NetSales", value, TRUE)
      [] baseName = <<"OperatingIncome">> -> AssignIfZero(st, "OperatingIncome", value, TRUE)
      [] baseName = <<"OrdinaryIncome">>  -> OrdinaryIncomeCase(st, value)
      [] baseName = <<"NetIncome">>       -> AssignIfZero(st, "NetIncome", value, TRUE)
      [] baseName = <<"TotalAssets">>     -> AssignIfZero(st, "TotalAssets", value, TRUE)
      [] baseName = <<"NetAssets">>       -> AssignIfZero(st, "NetAssets", value, TRUE)
      [] baseName = <<"CurrentAssets">>   -> AssignIfZero(st, "CurrentAssets", value, TRUE)
      [] baseName = <<"Liabilities">>     -> AssignIfZero(st, "Liabilities", value, TRUE)
      [] baseName = <<"CurrentLiabilities">> ->
             AssignIfZero(st, "CurrentLiabilities", value, TRUE)
      [] baseName = <<"CashAndDeposits">> -> AssignIfZero(st, "CashAndDeposits", value, TRUE)
      [] baseName = <<"SharesIssued">>    -> AssignIfZero(st, "SharesIssued", value, TRUE)
      [] OTHER -> st

\* mutant: the "Fallback2" suffix is not stripped
BaseName_KeepsFallback2(tagName) == TrimSuffix(TrimSuffix(tagName, Fallback), Fallback3)

\* baseName: the tag name with its fallback suffix stripped
BaseName(tagName) == TrimSuffix(TrimSuffix(TrimSuffix(tagName, Fallback), Fallback3), Fallback2)

\* mutant: the guard lets a zero through
Positive_OrZero(value) == value >= 0

\* if value > 0 { ... }: the guard on the parsed numeral
Positive(value) == value > 0

\* if found[baseName] { continue }
AlreadyFound(st, baseName) == baseName \in st.found

\* One iteration of `for tagName, pattern := range xbrlTagPatterns` on the
\* text contentStr, from the state st = [data, found].
PatternStep(st, tagName, contentStr) ==
    LET matches == FindStringSubmatch(Pattern(tagName), contentStr)
    IN  IF Len(matches) >= 2
        THEN LET value == ParseInt(matches[2])
             IN  IF Positive(value)
                 THEN LET baseName == BaseName(tagName)
                      IN  IF AlreadyFound(st, baseName) THEN st
                          ELSE SwitchBaseName(st, baseName, value)
                 ELSE st
        ELSE st

\* mutant: the gate also asks for a zero operating income
NoFinancialData_WithOperatingIncome(d) ==
    d["NetSales"] = 0 /\ d["TotalAssets"] = 0 /\ d["NetAssets"] = 0 /\ d["OperatingIncome"] = 0

\* if data.NetSales == 0 && data.TotalAssets == 0 && data.NetAssets == 0 { return error }
NoFinancialData(d) == d["NetSales"] = 0 /\ d["TotalAssets"] = 0 /\ d["NetAssets"] = 0

\* ------------------------------------------------------------------------
\* Archives: the inputs of parseXBRLFromZip
\* ------------------------------------------------------------------------
MainXbrl  == <<"XBRL/PublicDoc/", "jpcrp", ".xbrl">>
MainHtm   == <<"XBRL/PublicDoc/", "jpcrp", ".htm">>
FileNames == {MainXbrl, MainHtm}

E(name, ctx) == [name |-> name, contextRef |-> ctx]

\* The (element, context) pairs an archive is drawn from, grouped by the
\* field of FinancialData their patterns write.  Prior-year and filing-date
\* contexts stand for the elements no current-year pattern may pick up.
ElementGroups ==
    { { E("jpcrp_cor:NetSalesSummaryOfBusinessResults", Dur),
        E("jpcrp_cor:NetSalesSummaryOfBusinessResults", DurNC),
        E("jppfs_cor:NetSales", Dur),
        E("jpcrp_cor:OperatingRevenue1SummaryOfBusinessResults", DurNC) },
      { E("jpcrp_cor:OperatingIncomeLossSummaryOfBusinessResults", Dur),
        E("jpcrp_cor:OperatingIncomeLossSummaryOfBusinessResults", DurNC),
        E("jppfs_cor:OperatingIncome", Dur),
        E("jpcrp_cor:OrdinaryIncomeLossSummaryOfBusinessResults", Dur) },
      { E("jpcrp_cor:ProfitLossAttributableToOwnersOfParentSummaryOfBusinessResults", Dur),
        E("jpcrp_cor:ProfitLossAttributableToOwnersOfParentSummaryOfBusinessResults", DurNC),
        E("jppfs_cor:ProfitLoss", Dur),
        E("jpcrp_cor:NetIncomeLossSummaryOfBusinessResults", Dur) },
      { E("jpcrp_cor:TotalAssetsSummaryOfBusinessResults", Inst),
        E("jpcrp_cor:TotalAssetsSummaryOfBusinessResults", InstNC),
        E("jppfs_cor:Assets", Inst) },
      { E("jpcrp_cor:NetAssetsSummaryOfBusinessResults", Inst),
        E("jpcrp_cor:NetAssetsSummaryOfBusinessResults", InstNC),
        E("jppfs_cor:NetAssets", Inst) },
      { E("jpcrp_cor:TotalNumberOfIssuedSharesSummaryOfBusinessResults", Inst),
        E("jpcrp_cor:NumberOfIssuedSharesAsOfFilingDateEtcTotalNumberOfSharesEtc", Filing) },
      { E("jppfs_cor:CurrentAssets", Inst) },
      { E("jppfs_cor:Liabilities", Inst) },
      { E("jppfs_cor:CurrentLiabilities", Inst) },
      { E("jppfs_cor:CashAndDeposits", Inst) } }

ElementsOf(group) ==
    { [name |-> e.name, contextRef |-> e.contextRef, text |-> n] : e \in group, n \in Numerals }

\* all elements of the files of an archive
RECURSIVE ElementsIn(_)
ElementsIn(files) ==
    IF files = << >> THEN {}
    ELSE { files[1].content[i] : i \in 1..Len(files[1].content) } \cup ElementsIn(Tail(files))

RECURSIVE CountElems(_)
CountElems(files) ==
    IF files = << >> THEN 0 ELSE Len(files[1].content) + CountElems(Tail(files))

\* The entries an archive that begins with `files` may continue with: files
\* of at least one element, at most MaxElems elements in the whole archive,
\* all of one group; or an entry that cannot be opened or read, held with no
\* content since none of it is ever seen.
NextEntries(files) ==
    UNION { { [name |-> nm, content |-> c, readable |-> TRUE] :
                nm \in FileNames, c \in [1..m -> ElementsOf(group)] } :
            group \in { g \in ElementGroups : ElementsIn(files) \subseteq ElementsOf(g) },
            m \in 1..(MaxElems - CountElems(files)) }
    \cup { [name |-> MainXbrl, content |-> << >>, readable |-> FALSE] }

\* ------------------------------------------------------------------------
\* State
\* ------------------------------------------------------------------------
VARIABLES
    \* parseXBRLFromZip
    zipFiles,   \* zipReader.File: the entries of the archive reached so far
    fileIdx,    \* position of the outer loop in zipReader.File
    toVisit,    \* keys of xbrlTagPatterns the inner range loop has yet to visit
    data,       \* var data FinancialData
    found,      \* found := make(map[string]bool): the keys set to true
    pc,         \* position in parseXBRLFromZip: "idle", "files", "patterns", "done"
    err,        \* the error parseXBRLFromZip returns
    \* runCollector
    apiKey,     \* os.Getenv("EDINET_API_KEY")
    cpc,        \* position in runCollector: "idle", "start", "loop", "done", "fatal", "panic"
    listErr,    \* err of the head of runCollector: "nil" until a step of it fails
    docIdx,     \* documents of edinetRes.Results the loop has reached
    doc,        \* the loop variable doc
    docErr,     \* err of the iteration on doc: "nil" until an error is returned
    processedCount, skippedCount, errorCount,
    \* storage
    stocks,       \* table stocks of xbrl.db
    stockPrices,  \* table stock_prices of stock_price.db
    call,         \* the arguments of the last saveStock / savePricesToDB call
    \* runBatch
    bpc,            \* position in runBatch: "idle", "start", "loop", "pass", "done", "fatal"
    fromDate, toDate,
    day,            \* the loop variable d
    invoked,        \* the dates runCollector was called for, in the order of the calls
    sleeps,         \* the time.Sleep calls made
    totalProcessed,
    \* startServer
    response,       \* the last response of a handler
    \* fetchStockPrices
    fpc,              \* position in fetchStockPrices: "idle", "start", "loop", "done", "fatal"
    fetchIdx,         \* codes of the list the loop has gone through
    trace,            \* the upstream requests and the time.Sleep calls, in order
    successCount, fetchErrorCount

parseVars == <<zipFiles, fileIdx, toVisit, data, found, pc, err>>
collectorVars == <<apiKey, cpc, listErr, docIdx, doc, docErr, processedCount, skippedCount, errorCount>>
storeVars == <<stocks, stockPrices, call>>
batchVars == <<bpc, fromDate, toDate, day, invoked, sleeps, totalProcessed>>
serveVars == <<response>>
fetchVars == <<fpc, fetchIdx, trace, successCount, fetchErrorCount>>
vars == <<zipFiles, fileIdx, toVisit, data, found, pc, err,
          apiKey, cpc, listErr, docIdx, doc, docErr, processedCount, skippedCount, errorCount,
          stocks, stockPrices, call,
          bpc, fromDate, toDate, day, invoked, sleeps, totalProcessed, response,
          fpc, fetchIdx, trace, successCount, fetchErrorCount>>

\* ------------------------------------------------------------------------
\* The two tables and their writers
\* ------------------------------------------------------------------------
\* mutant: a column that is 0 in the new row keeps the value of the old row
StocksInsertOrReplace_Merge(table, row) ==
    { r \in table : r.code # row.code }
    \cup { IF \E r \in table : r.code = row.code
           THEN LET old == CHOOSE r \in table : r.code = row.code
                IN  [c \in DOMAIN row |->
                        IF c \notin {"code", "name", "updated_at"} /\ row[c] = 0
                        THEN old[c] ELSE row[c]]
           ELSE row }

\* INSERT OR REPLACE on a table with PRIMARY KEY (code): the rows in conflict
\* with the new row are deleted, then the new row is inserted
StocksInsertOrReplace(table, row) ==
    { r \in table : r.code # row.code } \cup {row}

\* mutant: the values bound to net_sales and total_assets change places
saveStock_Swapped(table, code, name, updatedAt, d) ==
    StocksInsertOrReplace(table,
        [code |-> code, name |-> name, updated_at |-> updatedAt,
         net_sales |-> d["TotalAssets"], operating_income |-> d["OperatingIncome"],
         net_income |-> d["NetIncome"], total_assets |-> d["NetSales"],
         net_assets |-> d["NetAssets"], current_assets |-> d["CurrentAssets"],
         liabilities |-> d["Liabilities"], current_liabilities |-> d["CurrentLiabilities"],
         cash_and_deposits |-> d["CashAndDeposits"], shares_issued |-> d["SharesIssued"]])

\* saveStock(db, code, name, updatedAt, data) when db.Exec succeeds
saveStock(table, code, name, updatedAt, d) ==
    StocksInsertOrReplace(table,
        [code |-> code, name |-> name, updated_at |-> updatedAt,
         net_sales |-> d["NetSales"], operating_income |-> d["OperatingIncome"],
         net_income |-> d["NetIncome"], total_assets |-> d["TotalAssets"],
         net_assets |-> d["NetAssets"], current_assets |-> d["CurrentAssets"],
         liabilities |-> d["Liabilities"], current_liabilities |-> d["CurrentLiabilities"],
         cash_and_deposits |-> d["CashAndDeposits"], shares_issued |-> d["SharesIssued"]])

\* rows.Scan of the /api/stocks query: the columns of a stocks row, in the
\* order of the SELECT list, into the fields of Stock
ScanStock(r) ==
    [Code |-> r.code, Name |-> r.name, UpdatedAt |-> r.updated_at,
     NetSales |-> r.net_sales, OperatingIncome |-> r.operating_income,
     NetIncome |-> r.net_income, TotalAssets |-> r.total_assets,
     NetAssets |-> r.net_assets, CurrentAssets |-> r.current_assets,
     Liabilities |-> r.liabilities, CurrentLiabilities |-> r.current_liabilities,
     CashAndDeposits |-> r.cash_and_deposits, SharesIssued |-> r.shares_issued]

\* SELECT ... FROM stocks s: the Stock values the query returns
QueryStocks(table) == { ScanStock(r) : r \in table }

\* mutant: the conflict is decided on the code alone
PricesInsertOrReplace_CodeKey(table, row) ==
    { r \in table : r.code # row.code } \cup {row}

\* INSERT OR REPLACE on a table with PRIMARY KEY (code, date)
PricesInsertOrReplace(table, row) ==
    { r \in table : ~(r.code = row.code /\ r.date = row.date) } \cup {row}

\* stmt.Exec(code, p.Date, p.Open, p.High, p.Low, p.Close, p.Volume)
PriceRow(code, p) ==
    [code |-> code, date |-> p.Date, open |-> p.Open, high |-> p.High,
     low |-> p.Low, close |-> p.Close, volume |-> p.Volume]

\* savePricesToDB(db, code, prices): the loop over prices from row i on;
\* execOk[i] tells whether stmt.Exec of row i succeeds.  The result is the
\* table and the count of the rows written.
RECURSIVE savePricesLoop(_, _, _, _, _, _)
savePricesLoop(table, code, prices, execOk, i, count) ==
    IF i > Len(prices) THEN [table |-> table, count |-> count]
    ELSE IF execOk[i]
         THEN savePricesLoop(PricesInsertOrReplace(table, PriceRow(code, prices[i])),
                             code, prices, execOk, i + 1, count + 1)
         ELSE savePricesLoop(table, code, prices, execOk, i + 1, count)

savePricesToDB(table, code, prices, execOk) ==
    savePricesLoop(table, code, prices, execOk, 1, 0)

\* ------------------------------------------------------------------------
\* Parts of the program that are at rest in a specification
\* ------------------------------------------------------------------------
NoDoc == [DocID |-> "", SecCode |-> << >>, DocTypeCode |-> "", EntityName |-> "",
          SubmissionDate |-> ""]
NoCall == [op |-> "none"]

\* runCollector is not running
CollectorIdle ==
    /\ apiKey = "" /\ cpc = "idle" /\ listErr = "nil" /\ docIdx = 0 /\ doc = NoDoc /\ docErr = "nil"
    /\ processedCount = 0 /\ skippedCount = 0 /\ errorCount = 0

\* parseXBRLFromZip is not running
ParseIdle ==
    /\ zipFiles = << >> /\ fileIdx = 0 /\ toVisit = {} /\ data = FinancialData
    /\ found = {} /\ pc = "idle" /\ err = "nil"

\* freshly created databases: initXbrlDB, initPriceDB
StoreEmpty == stocks = {} /\ stockPrices = {} /\ call = NoCall

\* runBatch is not running
BatchIdle ==
    /\ bpc = "idle" /\ fromDate = 0 /\ toDate = 0 /\ day = 0 /\ invoked = << >>
    /\ sleeps = 0 /\ totalProcessed = 0

\* no request has been served
NoResponse == [path |-> "", status |-> 0, body |-> << >>]
ServeIdle == response = NoResponse

\* fetchStockPrices is not running
FetchIdle ==
    /\ fpc = "idle" /\ fetchIdx = 0 /\ trace = << >>
    /\ successCount = 0 /\ fetchErrorCount = 0

\* entry of parseXBRLFromZip(zipReader)
ParseEntry ==
    /\ zipFiles = << >>
    /\ fileIdx = 0
    /\ toVisit = {}
    /\ data = FinancialData
    /\ found = {}
    /\ pc = "files"
    /\ err = "nil"

\* A range over a Go map visits every key once, in an order the runtime
\* chooses.  A key whose pattern has no match in the text leaves the state
\* as it is (len(matches) < 2), so the loop is held as the set of the keys
\* with a match that are still to come; RangePattern picks any of them.
KeysWithMatch(contentStr) ==
    { t \in TagNames : Len(FindStringSubmatch(Pattern(t), contentStr)) >= 2 }

\* for _, f := range zipReader.File: the loop reaches the next entry f of the
\* archive.  zipFiles holds the entries reached so far, fileIdx is the
\* position of f.  The entry is skipped (no .xbrl suffix, or it cannot be
\* opened or read) or its text is read and the range over the pattern table
\* starts.
NextFile(f) ==
    /\ pc = "files"
    /\ Len(zipFiles) < MaxFiles
    /\ zipFiles' = Append(zipFiles, f)
    /\ fileIdx' = fileIdx + 1
    /\ IF HasSuffix(f.name, <<".xbrl">>) /\ f.readable /\ KeysWithMatch(f.content) # {}
       THEN /\ toVisit' = KeysWithMatch(f.content)
            /\ pc' = "patterns"
       ELSE UNCHANGED <<toVisit, pc>>
    /\ UNCHANGED <<data, found, err>>
    /\ UNCHANGED <<collectorVars, storeVars>>
    /\ UNCHANGED <<batchVars, serveVars, fetchVars>>

\* one iteration of the range over xbrlTagPatterns; after the last key the
\* outer loop moves to the next file
RangePattern(tagName) ==
    /\ pc = "patterns"
    /\ tagName \in toVisit
    /\ LET st == PatternStep([data |-> data, found |-> found], tagName,
                             zipFiles[fileIdx].content)
       IN  /\ data' = st.data
           /\ found' = st.found
    /\ toVisit' = toVisit \ {tagName}
    /\ pc' = IF toVisit' = {} THEN "files" ELSE "patterns"
    /\ UNCHANGED <<zipFiles, fileIdx, err>>
    /\ UNCHANGED <<collectorVars, storeVars>>
    /\ UNCHANGED <<batchVars, serveVars, fetchVars>>

\* the archive has no further entry: the check that some data was found, and
\* the return
ParseReturn ==
    /\ pc = "files"
    /\ err' = IF NoFinancialData(data) THEN "no financial data found in XBRL" ELSE "nil"
    /\ pc' = "done"
    /\ UNCHANGED <<zipFiles, fileIdx, toVisit, data, found>>
    /\ UNCHANGED <<collectorVars, storeVars>>
    /\ UNCHANGED <<batchVars, serveVars, fetchVars>>

ParseNext ==
    \/ \E f \in NextEntries(zipFiles) : NextFile(f)
    \/ \E tagName \in TagNames : RangePattern(tagName)
    \/ ParseReturn

\* parseXBRLFromZip applied to any archive
InitExtract == ParseEntry /\ CollectorIdle /\ StoreEmpty /\ BatchIdle /\ ServeIdle /\ FetchIdle

SpecExtract == InitExtract /\ [][ParseNext]_vars

\* ------------------------------------------------------------------------
\* parseXBRLFromZip as one call: the results it may return on an archive,
\* one for each order in which the ranges over the pattern table may run
\* ------------------------------------------------------------------------
RECURSIVE RangeResults(_, _, _)
RangeResults(st, keys, contentStr) ==
    IF keys = {} THEN {st}
    ELSE UNION { RangeResults(PatternStep(st, t, contentStr), keys \ {t}, contentStr) :
                 t \in keys }

RECURSIVE FilesResults(_, _)
FilesResults(sts, files) ==
    IF files = << >> THEN sts
    ELSE LET f == files[1]
         IN  FilesResults(
                 IF HasSuffix(f.name, <<".xbrl">>) /\ f.readable
                 THEN UNION { RangeResults(st, KeysWithMatch(f.content), f.content) :
                              st \in sts }
                 ELSE sts,
                 Tail(files))

parseXBRLFromZip(files) ==
    { [data |-> st.data,
       err  |-> IF NoFinancialData(st.data) THEN "no financial data found in XBRL"
                ELSE "nil"] :
      st \in FilesResults({[data |-> FinancialData, found |-> {}]}, files) }

\* ------------------------------------------------------------------------
\* runCollector
\* ------------------------------------------------------------------------
El(name, ctx, n) == [name |-> name, contextRef |-> ctx, text |-> n]
XbrlFile(content) == [name |-> MainXbrl, content |-> content, readable |-> TRUE]

\* the archives a download may deliver: fully populated, sales only, assets
\* only, an operating income and nothing else, zero-valued, and empty
CollectorArchives ==
    { << XbrlFile(<< El("jpcrp_cor:NetSalesSummaryOfBusinessResults", Dur, 2),
                     El("jppfs_cor:OperatingIncome", Dur, 1),
                     El("jpcrp_cor:TotalAssetsSummaryOfBusinessResults", Inst, 2),
                     El("jpcrp_cor:NetAssetsSummaryOfBusinessResults", Inst, 1) >>) >>,
      << XbrlFile(<< El("jpcrp_cor:NetSalesSummaryOfBusinessResults", Dur, 1) >>) >>,
      << XbrlFile(<< El("jpcrp_cor:TotalAssetsSummaryOfBusinessResults", Inst, 1) >>) >>,
      << XbrlFile(<< El("jppfs_cor:OperatingIncome", Dur, 1) >>) >>,
      << XbrlFile(<< El("jpcrp_cor:NetSalesSummaryOfBusinessResults", Dur, 0) >>) >>,
      << >> }

ParseResults == UNION { parseXBRLFromZip(a) : a \in CollectorArchives }

\* the FinancialData downloadAndParseXBRL returns when no API key is set,
\* in units of 10^8 yen
MockData ==
    [FinancialData EXCEPT !["NetSales"] = 50, !["OperatingIncome"] = 5,
                          !["NetIncome"] = 3, !["TotalAssets"] = 100,
                          !["NetAssets"] = 50, !["CurrentAssets"] = 30,
                          !["Liabilities"] = 50]

\* client.Do fails, the status is not 200, io.ReadAll fails, zip.NewReader fails
DownloadErrors == {"transport error", "API error", "read error", "zip error"}

\* The dynamic type of each error value downloadAndParseXBRL returns, which
\* is all that errors.As or a type switch of the caller could tell apart:
\* client.Do returns a *url.Error; fmt.Errorf without %w and zip.ErrFormat
\* are made by errors.New; io.ReadAll hands on the error of the connection.
ErrorType(e) ==
    CASE e = "transport error" -> "*url.Error"
      [] e = "API error" -> "*errors.errorString"
      [] e = "read error" -> "*net.OpError"
      [] e = "zip error" -> "*errors.errorString"
      [] e = "no financial data found in XBRL" -> "*errors.errorString"
      [] OTHER -> "nil"

\* downloadAndParseXBRL(docID): the (data, err) pairs it may return
downloadAndParseXBRL(key) ==
    IF key = "" THEN { [data |-> MockData, err |-> "nil"] }
    ELSE { [data |-> FinancialData, err |-> e] : e \in DownloadErrors } \cup ParseResults

\* the documents of a list: security codes that are absent, shorter than
\* four characters, of four and of five characters
SecCodes == { << >>, <<"7", "2", "0">>, <<"7", "2", "0", "3">>,
              <<"7", "2", "0", "3", "0">>, <<"9", "9", "8", "4", "0">> }
DocTypeCodes == {"120", "130", "140", "160", "350"}
SubmissionDates == {"2025-11-13 09:00", "2025-11-14 15:30"}

DocPool ==
    { [DocID |-> "S100WYZE", SecCode |-> c, DocTypeCode |-> t, EntityName |-> "E",
       SubmissionDate |-> sd] :
      c \in SecCodes, t \in DocTypeCodes, sd \in SubmissionDates }

\* mutant: a document type without financial statements let through
financialDocTypes_With350 == {"120", "130", "140", "160", "350"}

financialDocTypes == {"120", "130", "140", "160"}

\* mutant: the earlier revision, which went on to save after a failure
SkipOnError_Never(e) == FALSE

\* if err != nil { log.Printf(...); errorCount++; continue }
SkipOnError(e) == e # "nil"

\* doc.SecCode[:4] is in range
SliceInRange(secCode) == Len(secCode) >= 4

\* shortCode := doc.SecCode[:4]
ShortCode(secCode) == SubSeq(secCode, 1, 4)

\* entry of runCollector(targetDate) on freshly created databases
CollectorEntry ==
    /\ apiKey \in {"", "key"}
    /\ cpc = "start" /\ listErr = "nil" /\ docIdx = 0 /\ doc = NoDoc /\ docErr = "nil"
    /\ processedCount = 0 /\ skippedCount = 0 /\ errorCount = 0

\* what the head of runCollector may meet: the list is read (test_data.json
\* without an API key, else fetchFromAPI: client.Do fails, or the status is not
\* 200), decoded, and xbrl.db is opened
ListOutcomes(key) ==
    {"ok", "bad JSON", "db init failed"}
    \cup (IF key = "" THEN {"mock file unreadable"}
          ELSE {"network error", "non-200 status"})

\* mutant: the pass goes on after a failure of its head
FatalOnError_Never(e) == FALSE

\* if err != nil { log.Fatalf(...) }
FatalOnError(e) == e # "nil"

\* The head of runCollector: the document list is read, decoded, and xbrl.db
\* is opened; each failure is a log.Fatalf.
StartPass(outcome) ==
    /\ cpc = "start"
    /\ listErr' = IF outcome = "ok" THEN "nil" ELSE outcome
    /\ cpc' = IF FatalOnError(listErr') THEN "fatal" ELSE "loop"
    /\ UNCHANGED <<apiKey, docIdx, doc, docErr, processedCount, skippedCount, errorCount>>
    /\ UNCHANGED <<parseVars, storeVars>>
    /\ UNCHANGED <<batchVars, serveVars, fetchVars>>

\* One iteration of `for _, doc := range edinetRes.Results` on the next
\* document d of the list; res is what downloadAndParseXBRL returns for it
\* and dbOk whether db.Exec of saveStock succeeds.
LoopIteration(d, res, dbOk) ==
    /\ cpc = "loop"
    /\ docIdx < MaxDocs
    /\ docIdx' = docIdx + 1
    /\ doc' = d
    /\ IF d.SecCode = << >>
       THEN /\ docErr' = "nil"
            /\ UNCHANGED <<cpc, processedCount, skippedCount, errorCount, stocks, call>>
       ELSE IF d.DocTypeCode \notin financialDocTypes
       THEN /\ skippedCount' = skippedCount + 1
            /\ docErr' = "nil"
            /\ UNCHANGED <<cpc, processedCount, errorCount, stocks, call>>
       ELSE IF ~SliceInRange(d.SecCode)
       THEN /\ cpc' = "panic"
            /\ docErr' = "nil"
            /\ UNCHANGED <<processedCount, skippedCount, errorCount, stocks, call>>
       ELSE IF SkipOnError(res.err)
       THEN /\ docErr' = res.err
            /\ errorCount' = errorCount + 1
            /\ UNCHANGED <<cpc, processedCount, skippedCount, stocks, call>>
       ELSE /\ call' = [op |-> "saveStock", code |-> ShortCode(d.SecCode),
                        name |-> d.EntityName, updatedAt |-> d.SubmissionDate,
                        data |-> res.data, ok |-> dbOk]
            /\ IF dbOk
               THEN /\ stocks' = saveStock(stocks, ShortCode(d.SecCode), d.EntityName,
                                           d.SubmissionDate, res.data)
                    /\ docErr' = "nil"
                    /\ processedCount' = processedCount + 1
                    /\ UNCHANGED <<cpc, skippedCount, errorCount>>
               ELSE /\ docErr' = "db error"
                    /\ errorCount' = errorCount + 1
                    /\ UNCHANGED <<cpc, processedCount, skippedCount, stocks>>
    /\ UNCHANGED <<apiKey, listErr, stockPrices>>
    /\ UNCHANGED parseVars
    /\ UNCHANGED <<batchVars, serveVars, fetchVars>>

\* the list has no further document: the summary line and the return
EndPass ==
    /\ cpc = "loop"
    /\ cpc' = "done"
    /\ UNCHANGED <<apiKey, listErr, docIdx, doc, docErr, processedCount, skippedCount,
                   errorCount>>
    /\ UNCHANGED <<parseVars, storeVars>>
    /\ UNCHANGED <<batchVars, serveVars, fetchVars>>

CollectorNext ==
    \/ \E outcome \in ListOutcomes(apiKey) : StartPass(outcome)
    \/ \E d \in DocPool : \E res \in downloadAndParseXBRL(apiKey) : \E dbOk \in BOOLEAN :
           LoopIteration(d, res, dbOk)
    \/ EndPass

\* one pass of runCollector over any document list
InitCollector == CollectorEntry /\ ParseIdle /\ StoreEmpty /\ BatchIdle /\ ServeIdle /\ FetchIdle

SpecCollector == InitCollector /\ [][CollectorNext]_vars

\* ------------------------------------------------------------------------
\* run mode started again and again on one store
\* ------------------------------------------------------------------------

\* the documents of the lists: two security codes with the prefix 7203 and
\* one with another, filed at either time
PassDocs ==
    { d \in DocPool :
        /\ d.DocTypeCode = "120"
        /\ d.SecCode \in { <<"7", "2", "0", "3", "0">>, <<"7", "2", "0", "3">>,
                           <<"9", "9", "8", "4", "0">> } }

\* what a download returns: the API refuses, or the figures of an archive
PassResults(key) ==
    { r \in downloadAndParseXBRL(key) : r.err \in {"nil", "API error"} }

\* the program is started once more in run mode: main calls runCollector in
\* a new process, on the store the earlier passes have left
RunAgain ==
    /\ cpc = "done"
    /\ cpc' = "start" /\ listErr' = "nil" /\ docIdx' = 0 /\ doc' = NoDoc
    /\ docErr' = "nil"
    /\ processedCount' = 0 /\ skippedCount' = 0 /\ errorCount' = 0
    /\ UNCHANGED apiKey
    /\ UNCHANGED <<parseVars, storeVars>>
    /\ UNCHANGED <<batchVars, serveVars, fetchVars>>

PassesNext ==
    \/ StartPass("ok")
    \/ \E d \in PassDocs : \E res \in PassResults(apiKey) : \E dbOk \in BOOLEAN :
           LoopIteration(d, res, dbOk)
    \/ EndPass
    \/ RunAgain

SpecPasses == InitCollector /\ [][PassesNext]_vars

\* ---------------------------------------------------------------------------
\* runBatch: one Collector pass per calendar day of a range
\* ---------------------------------------------------------------------------

\* A date is its number of days since 1970-01-01, a Thursday; a -from or -to
\* flag that is empty or that time.Parse rejects is NoDate.
NoDate == -1
Dates == 0..MaxDay

\* d.Weekday(): 0 is Sunday, 6 is Saturday
Weekday(d) == (d + 4) % 7

\* mutant: Sundays are collected
IsWeekend_SaturdayOnly(d) == Weekday(d) = 6

\* d.Weekday() == time.Saturday || d.Weekday() == time.Sunday
IsWeekend(d) == Weekday(d) = 6 \/ Weekday(d) = 0

\* the documents a day's list holds in a batch: one with financial
\* statements, one of another type, one with a security code of three characters
BatchDocs ==
    { d \in DocPool :
        /\ d.SubmissionDate = "2025-11-13 09:00"
        /\ \/ d.SecCode = <<"7", "2", "0", "3", "0">> /\ d.DocTypeCode \in {"120", "350"}
           \/ d.SecCode = <<"7", "2", "0">> /\ d.DocTypeCode = "120" }

\* what a download returns in a batch: the API refuses, or figures with net sales
BatchResults(key) ==
    { r \in downloadAndParseXBRL(key) :
        \/ r.err = "API error"
        \/ r.err = "nil" /\ r.data["NetSales"] >= 2 }

\* the entry of runBatch(fromStr, toStr)
BatchEntry ==
    /\ bpc = "start"
    /\ fromDate \in Dates \cup {NoDate} /\ toDate \in Dates \cup {NoDate}
    /\ day = 0 /\ invoked = << >> /\ sleeps = 0 /\ totalProcessed = 0

\* the flags are checked and parsed, each failure a log.Fatalf; d := fromDate
BatchStart ==
    /\ bpc = "start"
    /\ IF fromDate = NoDate \/ toDate = NoDate \/ fromDate > toDate
       THEN bpc' = "fatal" /\ day' = day
       ELSE bpc' = "loop" /\ day' = fromDate
    /\ UNCHANGED <<fromDate, toDate, invoked, sleeps, totalProcessed>>
    /\ UNCHANGED <<parseVars, collectorVars, storeVars, serveVars, fetchVars>>

\* an iteration on a Saturday or a Sunday: continue, then d = d.AddDate(0, 0, 1)
BatchSkipWeekend ==
    /\ bpc = "loop"
    /\ day <= toDate
    /\ IsWeekend(day)
    /\ day' = day + 1
    /\ UNCHANGED <<bpc, fromDate, toDate, invoked, sleeps, totalProcessed>>
    /\ UNCHANGED <<parseVars, collectorVars, storeVars, serveVars, fetchVars>>

\* an iteration on another day enters runCollector(dateStr)
BatchInvoke ==
    /\ bpc = "loop"
    /\ day <= toDate
    /\ ~IsWeekend(day)
    /\ bpc' = "pass"
    /\ invoked' = Append(invoked, day)
    /\ cpc' = "start" /\ listErr' = "nil" /\ docIdx' = 0 /\ doc' = NoDoc
    /\ docErr' = "nil"
    /\ processedCount' = 0 /\ skippedCount' = 0 /\ errorCount' = 0
    /\ UNCHANGED <<apiKey, fromDate, toDate, day, sleeps, totalProcessed>>
    /\ UNCHANGED <<parseVars, storeVars, serveVars, fetchVars>>

\* runCollector has returned: totalProcessed++, time.Sleep(1 * time.Second),
\* then d = d.AddDate(0, 0, 1)
BatchAfterPass ==
    /\ bpc = "pass"
    /\ cpc = "done"
    /\ cpc' = "idle"
    /\ bpc' = "loop"
    /\ totalProcessed' = totalProcessed + 1
    /\ sleeps' = sleeps + 1
    /\ day' = day + 1
    /\ UNCHANGED <<fromDate, toDate, invoked>>
    /\ UNCHANGED <<apiKey, listErr, docIdx, doc, docErr, processedCount, skippedCount,
                   errorCount>>
    /\ UNCHANGED <<parseVars, storeVars, serveVars, fetchVars>>

\* d.After(toDate): the loop is left and runBatch returns
BatchEnd ==
    /\ bpc = "loop"
    /\ day > toDate
    /\ bpc' = "done"
    /\ UNCHANGED <<fromDate, toDate, day, invoked, sleeps, totalProcessed>>
    /\ UNCHANGED <<parseVars, collectorVars, storeVars, serveVars, fetchVars>>

\* A log.Fatalf or a panic inside a pass ends the process: no step of
\* runCollector is enabled once cpc is "fatal" or "panic", and runBatch goes on
\* only from cpc = "done".
BatchNext ==
    \/ BatchStart
    \/ BatchSkipWeekend
    \/ BatchInvoke
    \/ \E outcome \in ListOutcomes(apiKey) : StartPass(outcome)
    \/ \E d \in BatchDocs : \E res \in BatchResults(apiKey) : LoopIteration(d, res, TRUE)
    \/ EndPass
    \/ BatchAfterPass
    \/ BatchEnd

InitBatch ==
    /\ BatchEntry
    /\ apiKey \in {"", "key"}
    /\ cpc = "idle" /\ listErr = "nil" /\ docIdx = 0 /\ doc = NoDoc /\ docErr = "nil"
    /\ processedCount = 0 /\ skippedCount = 0 /\ errorCount = 0
    /\ ParseIdle /\ StoreEmpty /\ ServeIdle /\ FetchIdle

SpecBatch == InitBatch /\ [][BatchNext]_vars

\* the process is scheduled until it ends
SpecBatchFair == SpecBatch /\ WF_vars(BatchNext)

\* ------------------------------------------------------------------------
\* The writers on their own: any sequence of calls on a table
\* ------------------------------------------------------------------------
EntityCodes == { <<"7", "2", "0", "3">>, <<"9", "9", "8", "4">>, <<"6", "7", "5", "8">> }

\* FinancialData values with ten different figures, in two arrangements
FieldNo ==
    [NetSales |-> 1, OperatingIncome |-> 2, NetIncome |-> 3, TotalAssets |-> 4,
     NetAssets |-> 5, CurrentAssets |-> 6, Liabilities |-> 7, CurrentLiabilities |-> 8,
     CashAndDeposits |-> 9, SharesIssued |-> 10]
DataPool == { FieldNo, [f \in Fields |-> 11 - FieldNo[f]], FinancialData, MockData }

\* a call of saveStock(db, code, name, updatedAt, data); dbOk: db.Exec succeeds
SaveStockCall(code, name, updatedAt, d, dbOk) ==
    /\ call' = [op |-> "saveStock", code |-> code, name |-> name, updatedAt |-> updatedAt,
                data |-> d, ok |-> dbOk,
                had |-> Cardinality({ r \in stocks : r.code = code })]
    /\ stocks' = IF dbOk THEN saveStock(stocks, code, name, updatedAt, d) ELSE stocks
    /\ UNCHANGED stockPrices
    /\ UNCHANGED <<parseVars, collectorVars>>
    /\ UNCHANGED <<batchVars, serveVars, fetchVars>>

StocksNext ==
    \E code \in EntityCodes, updatedAt \in SubmissionDates, d \in DataPool, dbOk \in BOOLEAN :
        SaveStockCall(code, "E", updatedAt, d, dbOk)

InitStocks == ParseIdle /\ CollectorIdle /\ StoreEmpty /\ BatchIdle /\ ServeIdle /\ FetchIdle

SpecStocks == InitStocks /\ [][StocksNext]_vars

\* the price rows of a call: two trading days, two quotes
PriceDates == {"2025-11-13", "2025-11-14"}
Quotes == { [Open |-> 2, High |-> 4, Low |-> 1, Close |-> 3, Volume |-> 5],
            [Open |-> 7, High |-> 9, Low |-> 6, Close |-> 8, Volume |-> 10] }
PriceCodes == { <<"7", "2", "0", "3">>, <<"9", "9", "8", "4">> }

StockPrice(code, date, q) ==
    [Code |-> code, Date |-> date, Open |-> q.Open, High |-> q.High, Low |-> q.Low,
     Close |-> q.Close, Volume |-> q.Volume]

\* a call of savePricesToDB(db, code, prices); execOk[i]: stmt.Exec of row i
\* succeeds
SavePricesCall(code, prices, execOk) ==
    /\ LET res == savePricesToDB(stockPrices, code, prices, execOk)
       IN  /\ stockPrices' = res.table
           /\ call' = [op |-> "savePricesToDB", code |-> code, prices |-> prices,
                       execOk |-> execOk, count |-> res.count]
    /\ UNCHANGED stocks
    /\ UNCHANGED <<parseVars, collectorVars>>
    /\ UNCHANGED <<batchVars, serveVars, fetchVars>>

\* the outcomes of the stmt.Exec calls of one savePricesToDB: every row is
\* written, or the database refuses the first write
ExecOutcomes(n) == { [i \in 1..n |-> TRUE] } \cup { [i \in 1..n |-> i > 1] }

PricesNext ==
    \E code \in PriceCodes, n \in 0..MaxPrices :
        \E prices \in [1..n -> { StockPrice(code, dt, q) : dt \in PriceDates, q \in Quotes }],
           execOk \in ExecOutcomes(n) :
            SavePricesCall(code, prices, execOk)

InitPrices == ParseIdle /\ CollectorIdle /\ StoreEmpty /\ BatchIdle /\ ServeIdle /\ FetchIdle

SpecPrices == InitPrices /\ [][PricesNext]_vars

\* ------------------------------------------------------------------------
\* startServer: the handlers /api/stocks and /api/oneil-ranking
\* ------------------------------------------------------------------------
\* A REAL price (stock_prices.close, LastPrice float64) is held as a whole
\* number of 1/PriceScale yen, so that prices below one yen and prices with a
\* fraction exist in the model.
PriceScale == 2

\* a *float64 that is nil, and one that holds the quotient num / den
Nil == << >>
Quot(num, den) == <<num, den>>

\* the codes of the stored entities, in the order of ORDER BY s.code ASC
CodeOrder == << <<"6", "7", "5", "8">>, <<"7", "2", "0", "3">>,
                <<"8", "3", "0", "6">>, <<"9", "9", "8", "4">> >>
ServeCodes == { CodeOrder[i] : i \in 1..Len(CodeOrder) }

\* the date strings of stock_prices, in the order MAX(date) compares them
DateOrder == << "2025-11-13", "2025-11-14" >>
DateRank(dt) == CHOOSE i \in 1..Len(DateOrder) : DateOrder[i] = dt

\* SELECT code, close, date FROM stock_prices sp1 WHERE date = (SELECT MAX(date) ...):
\* the rows of the latest date of each code
LatestPrices(prices) ==
    { r \in prices : \A q \in prices : q.code = r.code => DateRank(q.date) <= DateRank(r.date) }

\* one row of the LEFT JOIN of stocks with the latest prices, scanned:
\* the Stock fields, COALESCE(p.close, 0) and p.date
ScanJoined(r, p) ==
    [Stock |-> ScanStock(r),
     LastPrice |-> IF p = {} THEN 0 ELSE (CHOOSE q \in p : TRUE).close,
     PriceDate |-> IF p = {} THEN Nil ELSE <<(CHOOSE q \in p : TRUE).date>>]

\* the rows of the query in the order of ORDER BY s.code ASC; where is the
\* set of the stocks rows the WHERE clause keeps
RECURSIVE QueryRowsFrom(_, _, _)
QueryRowsFrom(i, kept, prices) ==
    IF i > Len(CodeOrder) THEN << >>
    ELSE LET rs == { r \in kept : r.code = CodeOrder[i] }
         IN  (IF rs = {} THEN << >>
              ELSE << ScanJoined(CHOOSE r \in rs : TRUE,
                                 { q \in LatestPrices(prices) : q.code = CodeOrder[i] }) >>)
             \o QueryRowsFrom(i + 1, kept, prices)

\* mutant: the market capitalisation rounded up
MarketCap_RoundedUp(lastPrice, sharesIssued) ==
    IF lastPrice > 0 /\ sharesIssued > 0
    THEN (lastPrice * sharesIssued + PriceScale - 1) \div PriceScale
    ELSE 0

\* if lastPrice > 0 && SharesIssued > 0 { MarketCap = int64(lastPrice * float64(SharesIssued)) }
\* the conversion to int64 drops the fraction
MarketCap(lastPrice, sharesIssued) ==
    IF lastPrice > 0 /\ sharesIssued > 0
    THEN (lastPrice * sharesIssued) \div PriceScale
    ELSE 0

\* mutant: PBR guarded by the market capitalisation alone
PBROf_Unguarded(marketCap, netAssets) ==
    IF marketCap > 0 THEN Quot(marketCap, netAssets) ELSE Nil

PEROf(marketCap, netIncome) ==
    IF marketCap > 0 /\ netIncome > 0 THEN Quot(marketCap, netIncome) ELSE Nil
PBROf(marketCap, netAssets) ==
    IF marketCap > 0 /\ netAssets > 0 THEN Quot(marketCap, netAssets) ELSE Nil
EPSOf(netIncome, sharesIssued) ==
    IF netIncome > 0 /\ sharesIssued > 0 THEN Quot(netIncome, sharesIssued) ELSE Nil
ROEOf(netIncome, netAssets) ==
    IF netIncome > 0 /\ netAssets > 0 THEN Quot(netIncome * 100, netAssets) ELSE Nil
EquityRatioOf(netAssets, totalAssets) ==
    IF totalAssets > 0 /\ netAssets > 0 THEN Quot(netAssets * 100, totalAssets) ELSE Nil
NetNetRatioOf(marketCap, currentAssets, liabilities) ==
    IF marketCap > 0 /\ currentAssets > 0
    THEN Quot(currentAssets - liabilities, marketCap) ELSE Nil

\* the body of the rows.Next() loop of /api/stocks: one StockWithPrice
StockWithPrice(j) ==
    LET st == j.Stock
        mc == MarketCap(j.LastPrice, st.SharesIssued)
    IN  [Code |-> st.Code, Stock |-> st, LastPrice |-> j.LastPrice, PriceDate |-> j.PriceDate,
         MarketCap |-> mc,
         PER |-> PEROf(mc, st.NetIncome),
         PBR |-> PBROf(mc, st.NetAssets),
         EPS |-> EPSOf(st.NetIncome, st.SharesIssued),
         ROE |-> ROEOf(st.NetIncome, st.NetAssets),
         EquityRatio |-> EquityRatioOf(st.NetAssets, st.TotalAssets),
         NetNetRatio |-> NetNetRatioOf(mc, st.CurrentAssets, st.Liabilities)]

\* the /api/stocks handler: the query, the loop, the encoded list
ApiStocksBody(table, prices) ==
    LET rows == QueryRowsFrom(1, table, prices)
    IN  [i \in 1..Len(rows) |-> StockWithPrice(rows[i])]

\* the score of /api/oneil-ranking: 50 and the steps for ROE, PER, PBR and
\* the equity ratio; q > k is num > k * den for a quotient of positive den
ScoreROE(roe) ==
    IF roe = Nil THEN 0
    ELSE IF roe[1] > 20 * roe[2] THEN 20
    ELSE IF roe[1] > 15 * roe[2] THEN 15
    ELSE IF roe[1] > 10 * roe[2] THEN 10 ELSE 0
ScorePER(per) ==
    IF per = Nil THEN 0
    ELSE IF per[1] < 10 * per[2] THEN 15
    ELSE IF per[1] < 15 * per[2] THEN 10
    ELSE IF per[1] < 20 * per[2] THEN 5 ELSE 0
ScorePBR(pbr) ==
    IF pbr = Nil THEN 0
    ELSE IF pbr[1] < pbr[2] THEN 10
    ELSE IF 2 * pbr[1] < 3 * pbr[2] THEN 5 ELSE 0
ScoreEquityRatio(er) ==
    IF er = Nil THEN 0
    ELSE IF er[1] > 50 * er[2] THEN 10
    ELSE IF er[1] > 30 * er[2] THEN 5 ELSE 0

\* the body of the rows.Next() loop of /api/oneil-ranking: one OneilStock
OneilStock(j) ==
    LET st  == j.Stock
        mc  == MarketCap(j.LastPrice, st.SharesIssued)
        eps == EPSOf(st.NetIncome, st.SharesIssued)
        roe == ROEOf(st.NetIncome, st.NetAssets)
        per == PEROf(mc, st.NetIncome)
        pbr == PBROf(mc, st.NetAssets)
        er  == EquityRatioOf(st.NetAssets, st.TotalAssets)
    IN  [Code |-> st.Code, Name |-> st.Name, LastPrice |-> j.LastPrice, MarketCap |-> mc,
         NetSales |-> st.NetSales, NetIncome |-> st.NetIncome,
         EPS |-> eps, ROE |-> roe, PER |-> per, PBR |-> pbr, EquityRatio |-> er,
         UpdatedAt |-> st.UpdatedAt,
         Score |-> 50 + ScoreROE(roe) + ScorePER(per) + ScorePBR(pbr) + ScoreEquityRatio(er)]

\* stocks[i], stocks[j] = stocks[j], stocks[i]
Swap(list, i, j) == [list EXCEPT ![i] = list[j], ![j] = list[i]]

\* mutant: the comparison of the sort turned round
ScoreGreater_Reversed(a, b) == a.Score < b.Score

\* if stocks[j].Score > stocks[i].Score
ScoreGreater(a, b) == a.Score > b.Score

\* for j := i + 1; j < len(stocks); j++ { if ... { swap } }   (positions from 1)
RECURSIVE SortInner(_, _, _)
SortInner(list, i, j) ==
    IF j > Len(list) THEN list
    ELSE SortInner(IF ScoreGreater(list[j], list[i]) THEN Swap(list, i, j) ELSE list, i, j + 1)

\* for i := 0; i < len(stocks)-1; i++ { ... }
RECURSIVE SortOuter(_, _)
SortOuter(list, i) ==
    IF i >= Len(list) THEN list
    ELSE SortOuter(SortInner(list, i, i + 1), i + 1)

\* WHERE s.net_sales > 0 OR s.net_income > 0
RankingWhere(r) == r.net_sales > 0 \/ r.net_income > 0

\* the rows of the ranking query, in the order of ORDER BY s.code ASC
RankingRows(table, prices) ==
    LET rows == QueryRowsFrom(1, { r \in table : RankingWhere(r) }, prices)
    IN  [i \in 1..Len(rows) |-> OneilStock(rows[i])]

\* the /api/oneil-ranking handler: the query, the loop, the sort
ApiOneilRankingBody(table, prices) == SortOuter(RankingRows(table, prices), 1)

\* the figures of the stored entities: the worked example (1000 shares,
\* net income 10000), an entity with no net assets, one with no shares and no
\* sales, and one with neither sales nor income
Profiles ==
    { [FinancialData EXCEPT !["NetSales"] = 1, !["NetIncome"] = 10000,
                            !["SharesIssued"] = 1000, !["NetAssets"] = 20000,
                            !["TotalAssets"] = 40000, !["CurrentAssets"] = 100,
                            !["Liabilities"] = 200],
      [FinancialData EXCEPT !["NetSales"] = 1, !["NetIncome"] = 10, !["SharesIssued"] = 3,
                            !["TotalAssets"] = 10, !["CurrentAssets"] = 5],
      [FinancialData EXCEPT !["NetIncome"] = 5, !["NetAssets"] = 10, !["TotalAssets"] = 20],
      [FinancialData EXCEPT !["NetAssets"] = 10, !["TotalAssets"] = 10,
                            !["SharesIssued"] = 3],
      [FinancialData EXCEPT !["NetSales"] = 1, !["NetIncome"] = 30, !["SharesIssued"] = 3,
                            !["NetAssets"] = 100, !["TotalAssets"] = 150] }

\* the price history of an entity: none, one day at half a yen, or that day
\* and a later one at 50 yen
PriceHistories ==
    { << >>, << <<"2025-11-13", 1>> >>, << <<"2025-11-13", 1>>, <<"2025-11-14", 100>> >> }

PriceRowsOf(code, history) ==
    { PriceRow(code, [Date |-> history[i][1], Open |-> history[i][2], High |-> history[i][2],
                      Low |-> history[i][2], Close |-> history[i][2], Volume |-> 1]) :
      i \in 1..Len(history) }

\* the databases the server may be started on: at most MaxStocks entities,
\* each saved by saveStock, each with a price history saved by savePricesToDB
ServeInputs ==
    UNION { [codes -> Profiles \X PriceHistories] :
            codes \in { c \in SUBSET ServeCodes : Cardinality(c) <= MaxStocks } }

ServerEntry ==
    \E inp \in ServeInputs :
        /\ stocks = UNION { saveStock({}, c, "E", "2025-11-13 09:00", inp[c][1]) :
                            c \in DOMAIN inp }
        /\ stockPrices = UNION { PriceRowsOf(c, inp[c][2]) : c \in DOMAIN inp }
        /\ call = NoCall
        /\ response = NoResponse

\* GET /api/stocks; dbOk: openServerDB and the query succeed
ServeApiStocks(dbOk) ==
    /\ response' = IF dbOk THEN [path |-> "/api/stocks", status |-> 200,
                                 body |-> ApiStocksBody(stocks, stockPrices)]
                   ELSE [path |-> "/api/stocks", status |-> 500, body |-> << >>]
    /\ UNCHANGED <<parseVars, collectorVars, storeVars, batchVars, fetchVars>>

\* GET /api/oneil-ranking
ServeApiOneilRanking(dbOk) ==
    /\ response' = IF dbOk THEN [path |-> "/api/oneil-ranking", status |-> 200,
                                 body |-> ApiOneilRankingBody(stocks, stockPrices)]
                   ELSE [path |-> "/api/oneil-ranking", status |-> 500, body |-> << >>]
    /\ UNCHANGED <<parseVars, collectorVars, storeVars, batchVars, fetchVars>>

ServeNext ==
    \/ \E dbOk \in BOOLEAN : ServeApiStocks(dbOk)
    \/ \E dbOk \in BOOLEAN : ServeApiOneilRanking(dbOk)

InitServe == ParseIdle /\ CollectorIdle /\ BatchIdle /\ FetchIdle /\ ServerEntry

SpecServe == InitServe /\ [][ServeNext]_vars

\* ------------------------------------------------------------------------
\* fetchStockPrices: one upstream price request per stored entity code
\* ------------------------------------------------------------------------

\* SELECT code FROM stocks ORDER BY code, scanned into codes
QueryCodes(table) ==
    LET Stored(c) == \E r \in table : r.code = c
    IN  SelectSeq(CodeOrder, Stored)

\* fetchPricesFromStooq(code) issues http.Get(url) whatever the environment
\* holds, and returns an error (the request fails, the status is not 200, the
\* body cannot be read, has one line, or has no "Date" header) or the rows of
\* the last year
StooqErrors == {"HTTP error", "HTTP status", "read error", "no data returned", "invalid format"}
StooqSeries(code) ==
    { << >>,
      << StockPrice(code, "2025-11-13", [Open |-> 2, High |-> 4, Low |-> 1, Close |-> 3,
                                          Volume |-> 5]) >> }
fetchPricesFromStooq(code) ==
    { [prices |-> << >>, err |-> e] : e \in StooqErrors }
    \cup { [prices |-> ps, err |-> "nil"] : ps \in StooqSeries(code) }

\* the entry of fetchStockPrices()
FetchEntry ==
    /\ fpc = "start" /\ fetchIdx = 0 /\ trace = << >>
    /\ successCount = 0 /\ fetchErrorCount = 0

\* initXbrlDB, initPriceDB and the query of the codes; each failure is a
\* log.Fatalf
FetchStart(dbOk) ==
    /\ fpc = "start"
    /\ fpc' = IF dbOk THEN "loop" ELSE "fatal"
    /\ UNCHANGED <<fetchIdx, trace, successCount, fetchErrorCount>>
    /\ UNCHANGED <<parseVars, collectorVars, storeVars, batchVars, serveVars>>

\* One iteration of `for i, code := range codes`: res is what
\* fetchPricesFromStooq returns, prepareOk whether db.Prepare of savePricesToDB
\* succeeds, execOk which of its stmt.Exec calls do.  Both error branches
\* `continue` past the time.Sleep at the end of the body.
FetchIteration(res, prepareOk, execOk) ==
    /\ fpc = "loop"
    /\ fetchIdx < Len(QueryCodes(stocks))
    /\ fetchIdx' = fetchIdx + 1
    /\ LET code == QueryCodes(stocks)[fetchIdx + 1]
       IN  IF res.err # "nil"
           THEN /\ trace' = Append(trace, "request")
                /\ fetchErrorCount' = fetchErrorCount + 1
                /\ UNCHANGED <<successCount, stockPrices, call>>
           ELSE IF ~prepareOk
           THEN /\ trace' = Append(trace, "request")
                /\ fetchErrorCount' = fetchErrorCount + 1
                /\ call' = [op |-> "savePricesToDB", code |-> code, prices |-> res.prices,
                            execOk |-> execOk, count |-> 0]
                /\ UNCHANGED <<successCount, stockPrices>>
           ELSE LET saved == savePricesToDB(stockPrices, code, res.prices, execOk)
                IN  /\ trace' = trace \o <<"request", "sleep">>
                    /\ stockPrices' = saved.table
                    /\ call' = [op |-> "savePricesToDB", code |-> code,
                                prices |-> res.prices, execOk |-> execOk,
                                count |-> saved.count]
                    /\ successCount' = IF saved.count > 0 THEN successCount + 1
                                       ELSE successCount
                    /\ UNCHANGED fetchErrorCount
    /\ UNCHANGED <<fpc, stocks>>
    /\ UNCHANGED <<parseVars, collectorVars, batchVars, serveVars>>

\* the list of the codes is exhausted: the summary line and the return
FetchEnd ==
    /\ fpc = "loop"
    /\ fetchIdx = Len(QueryCodes(stocks))
    /\ fpc' = "done"
    /\ UNCHANGED <<fetchIdx, trace, successCount, fetchErrorCount>>
    /\ UNCHANGED <<parseVars, collectorVars, storeVars, batchVars, serveVars>>

FetchNext ==
    \/ \E dbOk \in BOOLEAN : FetchStart(dbOk)
    \/ /\ fpc = "loop"
       /\ fetchIdx < Len(QueryCodes(stocks))
       /\ \E res \in fetchPricesFromStooq(QueryCodes(stocks)[fetchIdx + 1]),
             prepareOk \in BOOLEAN :
             \E execOk \in ExecOutcomes(Len(res.prices)) :
                FetchIteration(res, prepareOk, execOk)
    \/ FetchEnd

\* fetch-prices mode on a store of at most MaxStocks entities, with or
\* without EDINET_API_KEY in the environment
InitFetch ==
    /\ FetchEntry
    /\ apiKey \in {"", "key"}
    /\ cpc = "idle" /\ listErr = "nil" /\ docIdx = 0 /\ doc = NoDoc /\ docErr = "nil"
    /\ processedCount = 0 /\ skippedCount = 0 /\ errorCount = 0
    /\ \E codes \in { c \in SUBSET ServeCodes : Cardinality(c) <= MaxStocks } :
          stocks = UNION { saveStock({}, c, "E", "2025-11-13 09:00", MockData) : c \in codes }
    /\ stockPrices = {} /\ call = NoCall
    /\ ParseIdle /\ BatchIdle /\ ServeIdle

SpecFetch == InitFetch /\ [][FetchNext]_vars

\* ------------------------------------------------------------------------
\* startServer: the migration from the legacy store stock_data.db
\* ------------------------------------------------------------------------

\* ./data/stock_data.db does not exist
NoLegacy == [present |-> FALSE, stocks |-> {}, prices |-> {}]

\* the legacy stores: absent, or a file with the figures of 7203 and of 9984
\* and a price of 7203, either table possibly empty
LegacyStores ==
    {NoLegacy}
    \cup { [present |-> TRUE, stocks |-> st, prices |-> pr] :
             st \in SUBSET saveStock(saveStock({}, <<"7", "2", "0", "3">>, "L",
                                               "2024-01-01", FieldNo),
                                     <<"9", "9", "8", "4">>, "L", "2024-01-01", FieldNo),
             pr \in SUBSET PriceRowsOf(<<"7", "2", "0", "3">>, << <<"2025-11-13", 1>> >>) }

\* what the steps of a migration may meet: all succeed; the COUNT(*) query on
\* xbrl.db fails and leaves count at 0; the legacy store cannot be opened or
\* queried, or xbrl.db cannot be initialised; stock_price.db cannot be initialised
MigrationOutcomes == {"ok", "count query fails", "copy unavailable", "price db unavailable"}

\* for rows.Next() { rows.Scan(...); saveStock(xbrlDB, code, name, updatedAt, d) }
RECURSIVE CopyStocks(_, _)
CopyStocks(table, rows) ==
    IF rows = {} THEN table
    ELSE LET r == CHOOSE x \in rows : TRUE
         IN  CopyStocks(saveStock(table, r.code, r.name, r.updated_at,
                                  [f \in Fields |-> ScanStock(r)[f]]),
                        rows \ {r})

\* for pRows.Next() { pRows.Scan(...); savePricesToDB(priceDB, p.Code, []StockPrice{p}) }
RECURSIVE CopyPrices(_, _)
CopyPrices(table, rows) ==
    IF rows = {} THEN table
    ELSE LET r == CHOOSE x \in rows : TRUE
             p == [Code |-> r.code, Date |-> r.date, Open |-> r.open, High |-> r.high,
                   Low |-> r.low, Close |-> r.close, Volume |-> r.volume]
         IN  CopyPrices(savePricesToDB(table, p.Code, <<p>>, <<TRUE>>).table, rows \ {r})

\* migrateFromLegacyDB(): the two tables it leaves
migrateFromLegacyDB(table, prices, legacy, outcome) ==
    IF ~legacy.present THEN [stocks |-> table, stockPrices |-> prices]
    ELSE IF outcome # "count query fails" /\ Cardinality(table) > 0
    THEN [stocks |-> table, stockPrices |-> prices]
    ELSE IF outcome = "copy unavailable" THEN [stocks |-> table, stockPrices |-> prices]
    ELSE [stocks |-> CopyStocks(table, legacy.stocks),
          stockPrices |-> IF outcome = "price db unavailable" THEN prices
                          ELSE CopyPrices(prices, legacy.prices)]

\* startServer() up to the registration of the handlers: the migration, then
\* the three CREATE TABLE IF NOT EXISTS, which change no row
StartServer(legacy, outcome) ==
    /\ LET res == migrateFromLegacyDB(stocks, stockPrices, legacy, outcome)
       IN  /\ stocks' = res.stocks
           /\ stockPrices' = res.stockPrices
    /\ call' = [op |-> "migrateFromLegacyDB", legacy |-> legacy, outcome |-> outcome,
                had |-> Cardinality(stocks)]
    /\ UNCHANGED <<parseVars, collectorVars>>
    /\ UNCHANGED <<batchVars, serveVars, fetchVars>>

\* the server is started, any number of times, on a store the Collector
\* writes to in between
StartupNext ==
    \/ \E legacy \in LegacyStores, outcome \in MigrationOutcomes : StartServer(legacy, outcome)
    \/ \E code \in PriceCodes, updatedAt \in SubmissionDates, d \in {MockData, FinancialData} :
          SaveStockCall(code, "E", updatedAt, d, TRUE)

SpecStartup == InitStocks /\ [][StartupNext]_vars

\* ------------------------------------------------------------------------
\* parseXBRLFromZip on archives with an audit report: the files of one archive
\* carry elements of several fields
\* ------------------------------------------------------------------------
AuditXbrl == <<"XBRL/AuditDoc/", "jpaud", ".xbrl">>
ArchiveFileNames == {MainXbrl, AuditXbrl, MainHtm}

ArchiveElements ==
    { El("jpcrp_cor:NetSalesSummaryOfBusinessResults", Dur, 1),
      El("jpcrp_cor:OperatingRevenue1SummaryOfBusinessResults", Dur, 2),
      El("jppfs_cor:NetSales", Dur, 1),
      El("jpcrp_cor:TotalAssetsSummaryOfBusinessResults", Inst, 0),
      El("jpcrp_cor:TotalAssetsSummaryOfBusinessResults", Inst, 1) }

\* the entries an archive that begins with `files` may continue with
ArchiveEntries(files) ==
    UNION { { [name |-> nm, content |-> c, readable |-> TRUE] :
                nm \in ArchiveFileNames, c \in [1..m -> ArchiveElements] } :
            m \in 1..(MaxArchiveElems - CountElems(files)) }
    \cup { [name |-> MainXbrl, content |-> << >>, readable |-> FALSE] }

ArchiveNext ==
    \/ \E f \in ArchiveEntries(zipFiles) : NextFile(f)
    \/ \E tagName \in TagNames : RangePattern(tagName)
    \/ ParseReturn

InitArchive == ParseEntry /\ CollectorIdle /\ StoreEmpty /\ BatchIdle /\ ServeIdle /\ FetchIdle

SpecArchive == InitArchive /\ [][ArchiveNext]_vars

\* ------------------------------------------------------------------------
\* parseXBRLFromZip on texts whose numerals reach and pass the largest int64
\* ------------------------------------------------------------------------
LargeNumerals == {0, 1, MaxInt64, MaxInt64 + 1, 2 * MaxInt64}

NumeralElements ==
    { El(name, ctx, n) :
        name \in {"jpcrp_cor:NetSalesSummaryOfBusinessResults"}, ctx \in {Dur},
        n \in LargeNumerals }
    \cup { El("jpcrp_cor:TotalAssetsSummaryOfBusinessResults", Inst, n) : n \in LargeNumerals }

\* the entries an archive that begins with `files` may continue with
NumeralEntries(files) ==
    UNION { { [name |-> nm, content |-> c, readable |-> TRUE] :
                nm \in FileNames, c \in [1..m -> NumeralElements] } :
            m \in 1..(MaxElems - CountElems(files)) }

NumeralNext ==
    \/ \E f \in NumeralEntries(zipFiles) : NextFile(f)
    \/ \E tagName \in TagNames : RangePattern(tagName)
    \/ ParseReturn

SpecNumeral == InitExtract /\ [][NumeralNext]_vars

\* ------------------------------------------------------------------------
\* parseLocalFile (test-parse mode) beside parseXBRLFromZip
\* ------------------------------------------------------------------------

\* baseName of parseLocalFile: "Fallback" and "Fallback2" are stripped
LocalBaseName(tagName) == TrimSuffix(TrimSuffix(tagName, Fallback), Fallback2)

\* data.F = value, with no guard and no found mark
Assign(st, field, value) == [st EXCEPT !.data[field] = value]

\* switch baseName { ... } of parseLocalFile
LocalSwitchBaseName(st, baseName, value) ==
    CASE baseName \in {<<"NetSales">>, <<"OperatingRevenues">>} ->
             AssignIfZero(st, "NetSales", value, TRUE)
      [] baseName = <<"OperatingIncome">> -> AssignIfZero(st, "OperatingIncome", value, TRUE)
      [] baseName = <<"OrdinaryIncome">>  -> AssignIfZero(st, "OperatingIncome", value, FALSE)
      [] baseName = <<"NetIncome">>       -> AssignIfZero(st, "NetIncome", value, TRUE)
      [] baseName = <<"TotalAssets">>     -> AssignIfZero(st, "TotalAssets", value, TRUE)
      [] baseName = <<"NetAssets">>       -> AssignIfZero(st, "NetAssets", value, TRUE)
      [] baseName = <<"CurrentAssets">>   -> Assign(st, "CurrentAssets", value)
      [] baseName = <<"Liabilities">>     -> Assign(st, "Liabilities", value)
      [] baseName = <<"CurrentLiabilities">> -> Assign(st, "CurrentLiabilities", value)
      [] baseName = <<"CashAndDeposits">> -> Assign(st, "CashAndDeposits", value)
      [] baseName = <<"SharesIssued">>    -> AssignIfZero(st, "SharesIssued", value, TRUE)
      [] OTHER -> st

\* one iteration of `for tagName, pattern := range xbrlTagPatterns` of
\* parseLocalFile
LocalPatternStep(st, tagName, contentStr) ==
    LET matches == FindStringSubmatch(Pattern(tagName), contentStr)
    IN  IF Len(matches) >= 2
        THEN LET value == ParseInt(matches[2])
             IN  IF value > 0
                 THEN LET baseName == LocalBaseName(tagName)
                      IN  IF baseName \in st.found THEN st
                          ELSE LocalSwitchBaseName(st, baseName, value)
                 ELSE st
        ELSE st

\* Both functions on one text, their ranges over xbrlTagPatterns running in
\* the same order: the pairs <<state of parseXBRLFromZip, state of
\* parseLocalFile>> after the keys, one pair for each order.
RECURSIVE PairedResults(_, _, _, _)
PairedResults(zipSt, localSt, keys, contentStr) ==
    IF keys = {} THEN { <<zipSt, localSt>> }
    ELSE UNION { PairedResults(PatternStep(zipSt, t, contentStr),
                               LocalPatternStep(localSt, t, contentStr),
                               keys \ {t}, contentStr) : t \in keys }

\* the elements of the texts: net sales, the three net-income elements and
\* current assets
LocalElements ==
    { El("jpcrp_cor:NetSalesSummaryOfBusinessResults", Dur, 1),
      El("jpcrp_cor:ProfitLossAttributableToOwnersOfParentSummaryOfBusinessResults", Dur, 1),
      El("jppfs_cor:ProfitLoss", Dur, 2),
      El("jpcrp_cor:NetIncomeLossSummaryOfBusinessResults", Dur, 2),
      El("jppfs_cor:CurrentAssets", Inst, 1) }

LocalEntries(files) ==
    UNION { { [name |-> MainXbrl, content |-> c, readable |-> TRUE] :
                c \in [1..m -> LocalElements] } :
            m \in 1..(MaxElems - CountElems(files)) }

LocalNext ==
    \/ \E f \in LocalEntries(zipFiles) : NextFile(f)
    \/ \E tagName \in TagNames : RangePattern(tagName)
    \/ ParseReturn

SpecLocal == InitExtract /\ [][LocalNext]_vars

\* ------------------------------------------------------------------------
\* Vocabulary of the extraction claims
\* ------------------------------------------------------------------------
\* the entries of the archive whose text the extractor reads
WasRead(f) == HasSuffix(f.name, <<".xbrl">>) /\ f.readable
ReadTexts == { i \in 1..Len(zipFiles) : WasRead(zipFiles[i]) }

\* the pattern of tagName matches in the text, and the numeral it captures
HasMatch(tagName, contentStr) == Len(FindStringSubmatch(Pattern(tagName), contentStr)) >= 2
Captured(tagName, contentStr) == FindStringSubmatch(Pattern(tagName), contentStr)[2]
MatchesPositive(tagName, contentStr) ==
    HasMatch(tagName, contentStr) /\ Captured(tagName, contentStr) > 0

\* the positive values the patterns of tagNames capture in the texts read
PositiveValues(tagNames) ==
    UNION { { n \in { FindStringSubmatch(Pattern(t), zipFiles[i].content)[2] :
                        t \in { u \in tagNames : HasMatch(u, zipFiles[i].content) } } : n > 0 } :
            i \in ReadTexts }

\* fields with a primary pattern (a pattern named as the field)
PrimaryFields == { f \in Fields : <<f>> \in TagNames }
\* the fallback patterns of a field: names made of the field and a suffix
FallbackTable == [field \in Fields |-> { t \in TagNames : Len(t) > 1 /\ t[1] = field }]
FallbacksOf(field) == FallbackTable[field]
\* the patterns whose case of the switch writes the field
WritersTable ==
    [field \in Fields |->
        { t \in TagNames :
            SwitchBaseName([data |-> FinancialData, found |-> {}],
                           BaseName(t), 1).data[field] = 1 }]
WritersOf(field) == WritersTable[field]

OperatingIncomeTags == {<<"OperatingIncome">>} \cup FallbacksOf("OperatingIncome")
OrdinaryIncomeTag == <<"OrdinaryIncome">>

\* the archive is one text that was read
SingleText == Len(zipFiles) = 1 /\ WasRead(zipFiles[1])

\* C1: in a single document text, a field whose primary pattern matches a
\* positive integer v is returned as v, whatever order the pattern table is
\* visited in and whatever the fallback patterns of the field match.
C1_PrimaryValueReturned ==
    (pc = "done" /\ SingleText) =>
        \A field \in PrimaryFields :
            MatchesPositive(<<field>>, zipFiles[1].content) =>
                data[field] = Captured(<<field>>, zipFiles[1].content)

\* C2: when some operating-income pattern matches a positive value in the
\* archive and the ordinary-income pattern matches a different positive
\* value, the returned OperatingIncome is an operating-income value, never
\* the ordinary-income one.
C2_OrdinaryNeverPreempts ==
    (/\ pc = "done"
     /\ PositiveValues(OperatingIncomeTags) # {}
     /\ PositiveValues({OrdinaryIncomeTag}) # {}
     /\ PositiveValues(OperatingIncomeTags) \cap PositiveValues({OrdinaryIncomeTag}) = {})
        => data["OperatingIncome"] \in PositiveValues(OperatingIncomeTags)

\* the first text read, in archive order, where tagName matches a positive value
FirstPositiveText(tagName) ==
    CHOOSE i \in ReadTexts :
        /\ MatchesPositive(tagName, zipFiles[i].content)
        /\ \A j \in ReadTexts : MatchesPositive(tagName, zipFiles[j].content) => i <= j

\* C3: when no operating-income pattern matches a positive value in any
\* text read and the ordinary-income pattern matches a positive value, the
\* returned OperatingIncome is that ordinary-income value (with several
\* texts: the value of the first text, in archive order, where it is
\* positive).
C3_OrdinaryBackfills ==
    (/\ pc = "done"
     /\ PositiveValues(OperatingIncomeTags) = {}
     /\ PositiveValues({OrdinaryIncomeTag}) # {})
        => data["OperatingIncome"] =
             Captured(OrdinaryIncomeTag, zipFiles[FirstPositiveText(OrdinaryIncomeTag)].content)

C3_Witness ==
    /\ pc = "done"
    /\ PositiveValues(OperatingIncomeTags) = {}
    /\ \E i \in ReadTexts : /\ HasMatch(<<"OperatingIncome">>, zipFiles[i].content)
                            /\ MatchesPositive(OrdinaryIncomeTag, zipFiles[i].content)
    /\ data["OperatingIncome"] > 0

\* C4: in a single document text where, of all the patterns that write a
\* field, only one fallback pattern matches, and it captures a positive v,
\* the field is returned as v.
C4_LoneFallbackUsed ==
    (pc = "done" /\ SingleText) =>
        \A field \in Fields : \A t \in FallbacksOf(field) :
            (/\ MatchesPositive(t, zipFiles[1].content)
             /\ \A u \in WritersOf(field) \ {t} : ~HasMatch(u, zipFiles[1].content))
                => data[field] = Captured(t, zipFiles[1].content)

C4_Witness ==
    /\ pc = "done" /\ SingleText
    /\ MatchesPositive(<<"NetSales">> \o Fallback2, zipFiles[1].content)
    /\ \A u \in WritersOf("NetSales") \ {<<"NetSales">> \o Fallback2} :
          ~HasMatch(u, zipFiles[1].content)
    /\ data["NetSales"] = 2

\* some pattern writing the field captures a positive value in a text read
HasPositiveMatch(field) == PositiveValues(WritersOf(field)) # {}

\* C5: a match whose numeral is 0 assigns no field and marks no field as
\* resolved: only fields that hold a positive value are ever marked, and in
\* the result a field is positive exactly when some pattern writing it
\* captured a positive value in a text read, so a field whose only matches
\* are 0 stays 0 and a later positive match still populates it.
C5_ZeroNeverPopulates ==
    /\ \A b \in found : Len(b) = 1 /\ b[1] \in Fields /\ data[b[1]] > 0
    /\ pc = "done" =>
         \A field \in Fields : (data[field] > 0) <=> HasPositiveMatch(field)

\* a primary match of 0 in the first text, a positive match of the same
\* field in a later text, and the field populated from the later one
C5_Witness ==
    /\ pc = "done"
    /\ Len(zipFiles) = 2 /\ ReadTexts = {1, 2}
    /\ HasMatch(<<"TotalAssets">>, zipFiles[1].content)
    /\ Captured(<<"TotalAssets">>, zipFiles[1].content) = 0
    /\ ~HasPositiveMatch("NetAssets")
    /\ MatchesPositive(<<"TotalAssets">>, zipFiles[2].content)
    /\ data["TotalAssets"] = Captured(<<"TotalAssets">>, zipFiles[2].content)

\* C6: parseXBRLFromZip returns an error exactly when NetSales, TotalAssets
\* and NetAssets are all 0 at the end, that is exactly when no pattern
\* writing one of the three captured a positive value in a text read; the
\* other fields have no say.
C6_InsufficiencyGate ==
    pc = "done" =>
        /\ (err # "nil") <=>
             (data["NetSales"] = 0 /\ data["TotalAssets"] = 0 /\ data["NetAssets"] = 0)
        /\ (err # "nil") <=>
             (~HasPositiveMatch("NetSales") /\ ~HasPositiveMatch("TotalAssets")
                /\ ~HasPositiveMatch("NetAssets"))

\* the error is returned although operating income was found
C6_Witness ==
    /\ pc = "done"
    /\ err # "nil"
    /\ data["OperatingIncome"] > 0

\* ------------------------------------------------------------------------
\* Claims on the collector pass
\* ------------------------------------------------------------------------
\* a stocks row whose three gate figures are all zero
ZeroValuedRow(r) == r.net_sales = 0 /\ r.total_assets = 0 /\ r.net_assets = 0

\* the iteration on doc ended in a failed download or a failed extraction
ExtractionFailed(e) == e \in DownloadErrors \cup {"no financial data found in XBRL"}

\* C7: In a pass of runCollector, an iteration whose download or extraction
\* fails leaves the stocks table as it was and returns to the head of the loop,
\* where the later documents are taken up; no row with all gate figures zero is
\* ever stored from an archive; and a finished pass over two documents with
\* one saved and one failed has stored exactly one row.
C7_FailureWritesNothing ==
    [][ /\ (docIdx' = docIdx + 1 /\ ExtractionFailed(docErr'))
            => (stocks' = stocks /\ cpc' = "loop" /\ errorCount' = errorCount + 1)
        /\ (apiKey' # "") => \A r \in stocks' : ~ZeroValuedRow(r)
        /\ (cpc' = "done" /\ docIdx' = 2 /\ processedCount' = 1 /\ errorCount' = 1)
            => Cardinality(stocks') = 1 ]_vars

\* a finished pass over two documents: the first was saved, the second failed
\* the gate, and one row is stored
C7_Witness ==
    /\ cpc = "done" /\ docIdx = 2 /\ processedCount = 1 /\ errorCount = 1
    /\ docErr = "no financial data found in XBRL"
    /\ Cardinality(stocks) = 1

\* C8: Every stored entity code is the first four characters of a security
\* code ("72030" gives "7203"), and no document makes the pass panic: a
\* non-empty security code of fewer than four characters included.
C8_ShortCodeNeverPanics ==
    /\ \A r \in stocks : \E c \in SecCodes : Len(c) >= 4 /\ r.code = SubSeq(c, 1, 4)
    /\ cpc # "panic"

\* C9: After a successful saveStock the row read back by the code carries the
\* ten figures that were stored, and the table holds exactly one row for the
\* code; after any calls it holds at most one row per code.
C9_SaveStockRoundTrip ==
    /\ \A r1, r2 \in stocks : r1.code = r2.code => r1 = r2
    /\ (call.op = "saveStock" /\ call.ok) =>
          LET back == { st \in QueryStocks(stocks) : st.Code = call.code }
          IN  /\ Cardinality(back) = 1
              /\ \A st \in back : \A f \in Fields : st[f] = call.data[f]

\* a second save for a code that had a row, with other figures than before
\* in a table of several codes
C9_Witness ==
    /\ call.op = "saveStock" /\ call.ok /\ call.had = 1
    /\ call.data = FieldNo
    /\ Cardinality(stocks) >= 2
    /\ \E r \in stocks : r.code = call.code /\ r.net_sales = 1 /\ r.shares_issued = 10

\* the rows of a call that were written, and the last written row of a date
Written(c) == { i \in 1..Len(c.prices) : c.execOk[i] }
LastWritten(c, i) ==
    i \in Written(c) /\ \A j \in Written(c) : c.prices[j].Date = c.prices[i].Date => j <= i
WrittenDates(c) == { c.prices[i].Date : i \in Written(c) }

\* C10: After a call of savePricesToDB there is one row per (code, date); for
\* every date written the stored open, high, low, close and volume are those
\* of the last row ingested for it; the rows of other keys are as they were;
\* and ingesting the same rows again changes nothing.
C10_PriceUpsert ==
    [][ call'.op = "savePricesToDB" =>
        /\ \A r1, r2 \in stockPrices' :
              (r1.code = r2.code /\ r1.date = r2.date) => r1 = r2
        /\ \A i \in 1..Len(call'.prices) : LastWritten(call', i) =>
              LET p == call'.prices[i]
              IN  [code |-> call'.code, date |-> p.Date, open |-> p.Open, high |-> p.High,
                   low |-> p.Low, close |-> p.Close, volume |-> p.Volume] \in stockPrices'
        /\ { r \in stockPrices' : ~(r.code = call'.code /\ r.date \in WrittenDates(call')) }
           = { r \in stockPrices : ~(r.code = call'.code /\ r.date \in WrittenDates(call')) }
        /\ savePricesToDB(stockPrices', call'.code, call'.prices, call'.execOk).table
           = stockPrices' ]_vars

\* a call that ingests two different rows of one date, beside the rows of
\* another code and another date: the second row is the one stored
C10_Witness ==
    /\ call.op = "savePricesToDB" /\ Len(call.prices) = 2
    /\ call.execOk[1] /\ call.execOk[2]
    /\ call.prices[1].Date = call.prices[2].Date
    /\ call.prices[1].Close # call.prices[2].Close
    /\ \E r \in stockPrices : r.code = call.code /\ r.date = call.prices[2].Date
                              /\ r.close = call.prices[2].Close
    /\ \E r \in stockPrices : r.code # call.code
    /\ \E r \in stockPrices : r.code = call.code /\ r.date # call.prices[2].Date

\* ------------------------------------------------------------------------
\* Claims on the handlers of the server
\* ------------------------------------------------------------------------
\* the stored row of an entity and the close of its latest price (0: none)
RowOf(code) == CHOOSE r \in stocks : r.code = code
LatestClose(code) ==
    LET ps == { q \in stockPrices : q.code = code }
    IN  IF ps = {} THEN 0
        ELSE (CHOOSE q \in ps : \A o \in ps : DateRank(o.date) <= DateRank(q.date)).close
CodeRank(code) == CHOOSE i \in 1..Len(CodeOrder) : CodeOrder[i] = code

Served(path) == response.path = path /\ response.status = 200
Entities == { response.body[i] : i \in 1..Len(response.body) }

\* C11: In a response of /api/stocks a ratio is present only when its
\* denominator is strictly positive: PER needs net income, PBR and ROE net
\* assets, EPS shares issued, EquityRatio total assets, NetNetRatio a market
\* capitalisation; with net assets 0 PBR and ROE are absent, and with no price
\* or no shares issued PER, PBR and NetNetRatio are absent.
C11_RatiosNeedPositiveDenominator ==
    Served("/api/stocks") =>
        \A s \in Entities :
            LET r == RowOf(s.Code)
            IN  /\ s.PER # Nil => (r.net_income > 0 /\ s.PER[2] > 0)
                /\ s.PBR # Nil => (r.net_assets > 0 /\ s.PBR[2] > 0)
                /\ s.EPS # Nil => (r.shares_issued > 0 /\ s.EPS[2] > 0)
                /\ s.ROE # Nil => (r.net_assets > 0 /\ s.ROE[2] > 0)
                /\ s.EquityRatio # Nil => (r.total_assets > 0 /\ s.EquityRatio[2] > 0)
                /\ s.NetNetRatio # Nil => (s.MarketCap > 0 /\ s.NetNetRatio[2] > 0)
                /\ r.net_assets = 0 => (s.PBR = Nil /\ s.ROE = Nil)
                /\ (LatestClose(s.Code) = 0 \/ r.shares_issued = 0) =>
                      (s.PER = Nil /\ s.PBR = Nil /\ s.NetNetRatio = Nil)

\* an entity with a market capitalisation and a PER but no net assets,
\* served without PBR and ROE
C11_Witness ==
    /\ Served("/api/stocks")
    /\ \E s \in Entities : /\ RowOf(s.Code).net_assets = 0
                           /\ s.MarketCap > 0 /\ s.PER # Nil
                           /\ s.PBR = Nil /\ s.ROE = Nil

\* C12: In a response of /api/stocks every ratio that is present has a
\* strictly positive numerator and a strictly positive denominator, and
\* NetNetRatio is absent whenever current assets minus liabilities is zero or
\* negative.
C12_EmittedRatiosPositive ==
    Served("/api/stocks") =>
        \A s \in Entities :
            /\ \A q \in {s.PER, s.PBR, s.EPS, s.ROE, s.EquityRatio, s.NetNetRatio} :
                  q # Nil => (q[1] > 0 /\ q[2] > 0)
            /\ RowOf(s.Code).current_assets - RowOf(s.Code).liabilities <= 0
                  => s.NetNetRatio = Nil

\* C13 as stated: MarketCap is exactly last price times shares issued when
\* both are positive and 0 otherwise, and EPS is net income over shares issued
\* when both are positive (prices are counted in 1/PriceScale yen).
C13_MarketCapIsProduct ==
    (Served("/api/stocks") \/ Served("/api/oneil-ranking")) =>
        \A s \in Entities :
            LET r == RowOf(s.Code)
                price == LatestClose(s.Code)
            IN  /\ (price > 0 /\ r.shares_issued > 0)
                      => s.MarketCap * PriceScale = price * r.shares_issued
                /\ ~(price > 0 /\ r.shares_issued > 0) => s.MarketCap = 0
                /\ (r.net_income > 0 /\ r.shares_issued > 0)
                      => s.EPS = <<r.net_income, r.shares_issued>>

\* C13 amended: MarketCap is the whole part of last price times shares issued
\* when both are positive and 0 otherwise; EPS is net income over shares
\* issued when both are positive; 1000 shares at 50 yen with a net income of
\* 10000 give MarketCap 50000 and EPS 10.
C13_MarketCapIsWholePartOfProduct ==
    (Served("/api/stocks") \/ Served("/api/oneil-ranking")) =>
        \A s \in Entities :
            LET r == RowOf(s.Code)
                price == LatestClose(s.Code)
            IN  /\ (price > 0 /\ r.shares_issued > 0) =>
                      /\ s.MarketCap * PriceScale <= price * r.shares_issued
                      /\ price * r.shares_issued < (s.MarketCap + 1) * PriceScale
                /\ ~(price > 0 /\ r.shares_issued > 0) => s.MarketCap = 0
                /\ (r.net_income > 0 /\ r.shares_issued > 0)
                      => s.EPS = <<r.net_income, r.shares_issued>>
                /\ (r.shares_issued = 1000 /\ price = 50 * PriceScale /\ r.net_income = 10000)
                      => (s.MarketCap = 50000 /\ s.EPS[1] = 10 * s.EPS[2])

\* the ranking serves the worked example beside an entity whose product of
\* price and shares has a fraction
C13_Witness ==
    /\ Served("/api/oneil-ranking")
    /\ \E s \in Entities : /\ RowOf(s.Code).shares_issued = 1000
                           /\ LatestClose(s.Code) = 50 * PriceScale
                           /\ s.MarketCap = 50000 /\ s.EPS # Nil
    /\ \E s \in Entities : /\ RowOf(s.Code).shares_issued = 3
                           /\ LatestClose(s.Code) = 1
                           /\ s.MarketCap = 1

\* C19: A response of /api/oneil-ranking holds exactly the stored entities
\* with net sales > 0 or net income > 0, each once, in an order of
\* non-increasing score.
C19_RankingIsSortedSelection ==
    Served("/api/oneil-ranking") =>
        LET body == response.body
        IN  /\ { body[i].Code : i \in 1..Len(body) }
                  = { r.code : r \in { q \in stocks : q.net_sales > 0 \/ q.net_income > 0 } }
            /\ \A i, j \in 1..Len(body) : body[i].Code = body[j].Code => i = j
            /\ \A i, j \in 1..Len(body) : i < j => body[i].Score >= body[j].Score

\* two ranked entities that the sort had to exchange, beside a stored
\* entity that is left out
C19_Witness ==
    /\ Served("/api/oneil-ranking")
    /\ Len(response.body) = 2
    /\ \E r \in stocks : r.net_sales = 0 /\ r.net_income = 0
    /\ CodeRank(response.body[1].Code) > CodeRank(response.body[2].Code)
    /\ response.body[1].Score > response.body[2].Score

\* C20: In a response of /api/oneil-ranking two entities of equal score stand
\* in the order of the query result, that is in ascending entity code.
C20_RankingSortStable ==
    Served("/api/oneil-ranking") =>
        \A i, j \in 1..Len(response.body) :
            (i < j /\ response.body[i].Score = response.body[j].Score)
                => CodeRank(response.body[i].Code) < CodeRank(response.body[j].Code)

\* ------------------------------------------------------------------------
\* Further claims on the collector pass and the batch
\* ------------------------------------------------------------------------
\* a document with a security code and an allow-listed document type
Eligible(d) == d.SecCode # << >> /\ d.DocTypeCode \in {"120", "130", "140", "160"}

\* C16: An iteration of the loop of runCollector on a document that has no
\* security code or a document type outside {120, 130, 140, 160} downloads
\* nothing (neither the processed nor the error count moves, no error is
\* returned) and writes nothing (no saveStock call, stocks unchanged); the
\* stocks table changes only in an iteration on an eligible document.
C16_OnlyEligibleDocuments ==
    [][ /\ (docIdx' = docIdx + 1 /\ ~Eligible(doc')) =>
              /\ stocks' = stocks /\ call' = call
              /\ processedCount' = processedCount /\ errorCount' = errorCount
              /\ docErr' = "nil"
        /\ (stocks' # stocks \/ call' # call \/ errorCount' # errorCount) => Eligible(doc') ]_vars

\* after a saved document, a document of type 350 with a security code has
\* been skipped
C16_Witness ==
    /\ cpc = "loop" /\ docIdx = 2
    /\ doc.SecCode # << >> /\ doc.DocTypeCode = "350"
    /\ processedCount = 1 /\ skippedCount = 1 /\ errorCount = 0
    /\ Cardinality(stocks) = 1

\* ------------------------------------------------------------------------
\* Claims on archives of several files
\* ------------------------------------------------------------------------
\* strings.Contains(f.Name, "jpaud"): the file name follows the audit convention
IsAuditFile(f) == \E i \in 1..Len(f.name) : f.name[i] = "jpaud"

\* the texts read that are not audit reports
MainTexts == { i \in ReadTexts : ~IsAuditFile(zipFiles[i]) }

\* some pattern writing the field captures a positive value in text i
PositiveIn(i, field) ==
    \E t \in WritersOf(field) : MatchesPositive(t, zipFiles[i].content)

\* C17: No field of the result comes from an audit-report file: a field is
\* positive only if a pattern writing it captures a positive value in a text
\* that is not an audit report, and the insufficiency gate passes only on such
\* a match for NetSales, TotalAssets or NetAssets.
C17_AuditFilesSkipped ==
    pc = "done" =>
        /\ \A field \in Fields :
              data[field] > 0 => \E i \in MainTexts : PositiveIn(i, field)
        /\ err = "nil" =>
              \E i \in MainTexts : \E field \in {"NetSales", "TotalAssets", "NetAssets"} :
                  PositiveIn(i, field)

\* the first text read, in archive order, with a positive match for the field
FirstTextFor(field) ==
    CHOOSE i \in ReadTexts :
        PositiveIn(i, field) /\ \A j \in ReadTexts : PositiveIn(j, field) => i <= j

\* C18: parseXBRLFromZip goes through every .xbrl file in archive order with
\* one result and one resolved-set: a field that holds a positive value keeps
\* it through every later pattern and file, the marks of the resolved-set are
\* never taken back, and in the result a field is positive exactly when some
\* text read has a positive match for it, its value being one captured in the
\* first such text.
C18_WriteOnceAcrossFiles ==
    [][ /\ \A field \in Fields : data[field] > 0 => data'[field] = data[field]
        /\ found \subseteq found'
        /\ (pc = "files" /\ pc' = "done") =>
              /\ data' = data
              /\ \A field \in Fields :
                    /\ (data[field] > 0) <=> (\E i \in ReadTexts : PositiveIn(i, field))
                    /\ data[field] > 0 =>
                          \E t \in WritersOf(field) :
                              /\ MatchesPositive(t, zipFiles[FirstTextFor(field)].content)
                              /\ data[field] = Captured(t, zipFiles[FirstTextFor(field)].content)
      ]_vars

\* two texts were read: the first resolves NetSales and has no total assets,
\* the second offers another NetSales and resolves TotalAssets
C18_Witness ==
    /\ pc = "done" /\ ReadTexts = {1, 2}
    /\ PositiveIn(1, "NetSales") /\ ~PositiveIn(1, "TotalAssets")
    /\ PositiveIn(2, "NetSales") /\ PositiveIn(2, "TotalAssets")
    /\ \A t \in WritersOf("NetSales") :
          MatchesPositive(t, zipFiles[2].content) =>
              Captured(t, zipFiles[2].content) # data["NetSales"]
    /\ data["TotalAssets"] > 0


\* ---------------------------------------------------------------------------
\* Batch mode
\* ---------------------------------------------------------------------------

\* Monday to Friday, counted from Thursday 1970-01-01
NotSatSun(d) == ((d + 4) % 7) \in 1..5

RECURSIVE WorkdaysIn(_, _)
\* the days of [a, b] that are neither Saturday nor Sunday, ascending
WorkdaysIn(a, b) ==
    IF a > b THEN << >>
    ELSE IF NotSatSun(a) THEN <<a>> \o WorkdaysIn(a + 1, b)
    ELSE WorkdaysIn(a + 1, b)

\* C14: when the head of a pass fails (the list cannot be fetched or decoded),
\* the pass ends there, before any document is extracted and before any write
\* to the store, and the process takes no further step: in a batch no later
\* day is invoked.
C14_ListFailureIsFatal ==
    [][ /\ cpc # "fatal"
        /\ listErr' # "nil" =>
              /\ cpc' = "fatal"
              /\ docIdx' = 0 /\ processedCount' = 0 /\ errorCount' = 0
              /\ UNCHANGED <<parseVars, storeVars>>
              /\ UNCHANGED <<day, invoked, sleeps, totalProcessed>> ]_vars

\* a batch whose third pass cannot fetch its list: two days have been
\* stored, a working day of the range is still ahead
C14_Witness ==
    /\ cpc = "fatal" /\ listErr = "network error"
    /\ Len(invoked) = 3
    /\ stocks # {}
    /\ day < toDate /\ NotSatSun(toDate)
    /\ docIdx = 0

\* C15 as stated: once a batch over a valid range has ended, by its return or
\* by the fatal exit of a pass, every working day of the range was invoked
\* once, in ascending order, each followed by the delay.
C15_EveryWorkdayInvoked ==
    (bpc = "done" \/ (bpc = "pass" /\ cpc = "fatal")) =>
        /\ invoked = WorkdaysIn(fromDate, toDate)
        /\ sleeps = Len(invoked)

\* what holds of a batch at every moment
BatchProgress ==
    /\ bpc \in {"loop", "done"} =>
          /\ invoked = WorkdaysIn(fromDate, day - 1)
          /\ sleeps = Len(invoked) /\ totalProcessed = Len(invoked)
          /\ day <= toDate + 1
    /\ bpc = "pass" =>
          /\ invoked = WorkdaysIn(fromDate, day)
          /\ sleeps = Len(invoked) - 1 /\ totalProcessed = Len(invoked) - 1
          /\ day <= toDate
    /\ bpc = "done" => day = toDate + 1 /\ invoked = WorkdaysIn(fromDate, toDate)

\* the batch has returned, or the process has exited
BatchOver == bpc \in {"done", "fatal"} \/ cpc \in {"fatal", "panic"}

\* C15: in a batch over a valid range the days invoked so far are exactly the
\* working days from the first day up to the current one, each once and in
\* ascending order, never a Saturday or a Sunday; the delay has followed every
\* pass that returned; a batch that returns has invoked every working day of
\* the range; and every batch ends, by its return after the last day or by
\* the exit of the process inside a pass.
C15_WorkdaysInOrderUntilExit == [] BatchProgress /\ <> BatchOver

\* a batch from a Thursday to the next Monday has returned: three passes,
\* three delays, the weekend between them not invoked
C15_Witness ==
    /\ bpc = "done"
    /\ fromDate = 0 /\ toDate = 4
    /\ invoked = <<0, 1, 4>>
    /\ sleeps = 3


\* ---------------------------------------------------------------------------
\* Price fetching
\* ---------------------------------------------------------------------------

\* the upstream requests made so far
Requests == { i \in 1..Len(trace) : trace[i] = "request" }

\* C21: without EDINET_API_KEY in the environment no upstream request is
\* issued; here for fetch-prices mode.
C21_NoRequestWithoutKey == apiKey = "" => Requests = {}

\* C25: in fetch-prices mode a time.Sleep lies between any two consecutive
\* upstream requests, whatever became of the earlier one, and a run that
\* returns has made one request for every stored code.
C25_DelayBetweenRequests ==
    /\ \A i \in Requests : i < Len(trace) => trace[i + 1] = "sleep"
    /\ fpc = "done" => Cardinality(Requests) = Len(QueryCodes(stocks))


\* ---------------------------------------------------------------------------
\* Errors of a download
\* ---------------------------------------------------------------------------

\* C22: the error runCollector receives for figures that fail the gate is of
\* another kind than every error it may receive for a failed transport.
C22_InsufficiencyErrorIsTyped ==
    docErr = "no financial data found in XBRL" =>
        \A e \in DownloadErrors : ErrorType(e) # ErrorType(docErr)


\* ---------------------------------------------------------------------------
\* Numerals beyond the int64 range
\* ---------------------------------------------------------------------------

\* every match of a pattern that writes the field, in the texts read, captures
\* a zero or a numeral no int64 holds
OnlyUnusableMatches(field) ==
    \A i \in ReadTexts : \A t \in WritersOf(field) :
        HasMatch(t, zipFiles[i].content) =>
            \/ Captured(t, zipFiles[i].content) = 0
            \/ Captured(t, zipFiles[i].content) > MaxInt64

\* C23: a captured numeral above the largest int64 counts as no match: a
\* field whose every match is zero or such a numeral is returned as 0.
C23_OverflowIsNoMatch ==
    pc = "done" => \A field \in Fields : OnlyUnusableMatches(field) => data[field] = 0


\* ---------------------------------------------------------------------------
\* The score of the ranking
\* ---------------------------------------------------------------------------

\* the award of a metric q = <<num, den>> that is above (below) the bands
AwardAbove(q, bands) ==
    IF q = Nil THEN 0
    ELSE LET hit == { b \in bands : q[1] * b[2] > b[1] * q[2] }
         IN  IF hit = {} THEN 0
             ELSE (CHOOSE b \in hit : \A o \in hit : o[3] <= b[3])[3]
AwardBelow(q, bands) ==
    IF q = Nil THEN 0
    ELSE LET hit == { b \in bands : q[1] * b[2] < b[1] * q[2] }
         IN  IF hit = {} THEN 0
             ELSE (CHOOSE b \in hit : \A o \in hit : o[3] <= b[3])[3]

\* the documented awards; a band is <<threshold numerator, denominator, points>>
DocumentedScore(s) ==
    50 + AwardAbove(s.ROE, { <<20, 1, 20>>, <<15, 1, 15>>, <<10, 1, 10>> })
       + AwardBelow(s.PER, { <<10, 1, 15>>, <<15, 1, 10>>, <<20, 1, 5>> })
       + AwardBelow(s.PBR, { <<1, 1, 10>>, <<3, 2, 5>> })
       + AwardAbove(s.EquityRatio, { <<50, 1, 10>>, <<30, 1, 5>> })

\* every ranked entity carries the sum of the documented awards
ScoreIsSumOfAwards ==
    Served("/api/oneil-ranking") => \A s \in Entities : s.Score = DocumentedScore(s)

\* C24: the Score of every entity of /api/oneil-ranking is 50 plus one award
\* at most for each of ROE, PER, PBR and equity ratio, and lies in 0..100.
C24_ScoreWithinDocumentedRange ==
    Served("/api/oneil-ranking") =>
        \A s \in Entities : s.Score = DocumentedScore(s) /\ s.Score \in 0..100


\* ---------------------------------------------------------------------------
\* The figures record over several passes
\* ---------------------------------------------------------------------------

\* the step is an iteration of runCollector that saved its document
SavedDocument == cpc = "loop" /\ processedCount' = processedCount + 1

NetSalesTags == {<<"NetSales">>} \cup FallbacksOf("NetSales")
OperatingRevenuesTag == <<"OperatingRevenues">>

\* the texts read in which a pattern of tagNames has a positive match
TextsWithPositive(tagNames) ==
    { i \in ReadTexts : \E t \in tagNames : MatchesPositive(t, zipFiles[i].content) }

\* C27: net sales and operating revenues resolve the one field NetSales.
\* When only the operating-revenues pattern has a positive match, NetSales is
\* the value it captures in the first text with such a match; when net-sales
\* patterns have positive matches too, NetSales is one of the positive values
\* matched; and once NetSales is positive no later match changes it.
C27_RevenuesResolveNetSales ==
    [][ /\ data["NetSales"] > 0 => data'["NetSales"] = data["NetSales"]
        /\ (pc = "files" /\ pc' = "done") =>
              LET withSales == TextsWithPositive(NetSalesTags)
                  withRevenues == TextsWithPositive({OperatingRevenuesTag})
              IN  /\ (withRevenues # {} /\ withSales = {}) =>
                        LET first == CHOOSE i \in withRevenues :
                                         \A j \in withRevenues : i <= j
                        IN  data["NetSales"] =
                                Captured(OperatingRevenuesTag, zipFiles[first].content)
                  /\ (withRevenues # {} /\ withSales # {}) =>
                        data["NetSales"] \in
                            PositiveValues(NetSalesTags \cup {OperatingRevenuesTag})
      ]_vars

\* the first text has operating revenues and no net sales, the second has
\* net sales of another amount: NetSales is the operating revenues of the first
C27_Witness ==
    /\ pc = "done" /\ ReadTexts = {1, 2}
    /\ TextsWithPositive({OperatingRevenuesTag}) = {1}
    /\ TextsWithPositive(NetSalesTags) = {2}
    /\ data["NetSales"] = Captured(OperatingRevenuesTag, zipFiles[1].content)
    /\ data["NetSales"] \notin PositiveValues(NetSalesTags)


\* ---------------------------------------------------------------------------
\* The visiting order of the pattern table
\* ---------------------------------------------------------------------------

\* C28: the result of parseXBRLFromZip on an archive does not depend on the
\* order in which the ranges over xbrlTagPatterns run: every order returns the
\* ten figures and the error of the run at hand.
C28_ExtractionDeterministic ==
    pc = "done" => \A r \in parseXBRLFromZip(zipFiles) : r.data = data /\ r.err = err


\* ---------------------------------------------------------------------------
\* test-parse mode against archive extraction
\* ---------------------------------------------------------------------------

\* C29: when parseXBRLFromZip succeeds on an archive of one text,
\* parseLocalFile on that text, visiting the patterns in the same order,
\* returns the same ten figures.
C29_LocalParseAgrees ==
    (pc = "done" /\ SingleText /\ err = "nil") =>
        LET contentStr == zipFiles[1].content
            entry == [data |-> FinancialData, found |-> {}]
        IN  \A pair \in PairedResults(entry, entry, KeysWithMatch(contentStr), contentStr) :
                pair[1].data = data => pair[2].data = data


\* ---------------------------------------------------------------------------
\* Migration from the legacy store
\* ---------------------------------------------------------------------------

\* C30: a start of the server changes no row of the figures store or of the
\* price store when the legacy store is absent or when the figures store
\* holds a record already; so a second start after a migration that copied a
\* record, and a start after a write of the Collector, overwrite nothing.
C30_MigrationLeavesPopulatedStore ==
    [][ (call'.op = "migrateFromLegacyDB" /\ (~call'.legacy.present \/ stocks # {})) =>
            (stocks' = stocks /\ stockPrices' = stockPrices) ]_vars

====
